---- MODULE Spec2Model ----
(***************************************************************************)
(* Streak detection and tiered fallback of Stat-Chat.                      *)
(*                                                                         *)
(* Numbers.  The program computes with binary floating point; the model    *)
(* computes with exact rationals [n |-> numerator, d |-> denominator > 0]. *)
(* A per-game OPS value is an integer count of 1/OPS_UNIT, a smoothed      *)
(* value an integer count of 1/(OPS_UNIT * ROLLING_WINDOW), a rounded rate *)
(* stat an integer count of thousandths.                                   *)
(***************************************************************************)
EXTENDS Integers, Sequences, FiniteSets, TLC

VARIABLES
    arg,        \* inputs of the function under examination (pure-function specifications)
    ret,        \* <<result>> once the function has returned, NoRet before
    game_logs,  \* table game_batting_logs: the season shape of every player-season
    streaks,    \* table streaks as the batch connection sees it, in insertion order
    streaks_committed,      \* table streaks as every other connection sees it
    streaks_seq,            \* sqlite_sequence of streaks: the largest id ever given
    sensitive,              \* table streaks_sensitive as the batch connection sees it
    sensitive_committed,    \* table streaks_sensitive as every other connection sees it
    sensitive_seq,          \* sqlite_sequence of streaks_sensitive
    pc,         \* "idle", or the batch pass in progress: "primary", "sensitive"; "failed" once
                \* an exception has ended the batch process
    todo,       \* player-seasons the running pass has still to visit
    idx,        \* loop index i of the running pass
    passes,     \* batch passes started so far
    edits,      \* changes made to the game logs so far
    primary_logs,   \* <<game_logs>> as the last started primary pass found them, else <<>>
    prev_streaks,   \* <<rows>> the previous primary pass left, when the last started one
                    \* repeats it on unchanged game logs, else <<>>
    sensitive_basis,    \* <<rows>> of table streaks as the last started secondary pass
                        \* found them, else <<>>
    answer      \* outcome of the request just handled, NoAnswer otherwise

fnVars == <<arg, ret>>

dbVars == <<game_logs, streaks, streaks_committed, streaks_seq,
            sensitive, sensitive_committed, sensitive_seq>>

runVars == <<pc, todo, idx, passes, edits, primary_logs, prev_streaks, sensitive_basis>>

vars == <<arg, ret, game_logs, streaks, streaks_committed, streaks_seq,
          sensitive, sensitive_committed, sensitive_seq,
          pc, todo, idx, passes, edits, primary_logs, prev_streaks,
          sensitive_basis, answer>>

NoRet == <<>>

(***************************************************************************)
(* Program constants                                                       *)
(***************************************************************************)
MIN_SEGMENT_SIZE == 7
PENALTY == [n |-> 3, d |-> 1]
ROLLING_WINDOW == 5
SENSITIVE_PENALTY == [n |-> 3, d |-> 2]
SENSITIVE_MAX_SEGMENT == 30
\* the batch passes commit after every COMMIT_EVERY-th player-season
COMMIT_EVERY == 100

(***************************************************************************)
(* Bounds of the model                                                     *)
(***************************************************************************)
\* longest signal handed to detect_change_points on its own
MaxSigLen == 7
\* largest min_size handed to detect_change_points on its own
MaxMinSize == 3

\* batch passes started in one behaviour
MaxPasses == 3
\* changes of the game logs in one behaviour
MaxEdits == 1
\* largest rate, in thousandths, handed to label_performance on its own
MaxLabelOps == 12
\* longest second run of games of the seasons the passes are run on one at a time
MaxRun == 31
\* longest run of games at one level in the two-level signals of the scenarios
MaxHalf == 10
\* most games of another kind at the head of a week of the live seasons
MaxOdd == 2
\* calls of QueryEngine.ask in one conversation
MaxAsks == 6
\* penalties of the segmentation specification: 0, 0.5, 1.5 and 3
SegPenalties == {[n |-> 0, d |-> 1], [n |-> 1, d |-> 2], [n |-> 3, d |-> 2], PENALTY}

(***************************************************************************)
(* Exact rational arithmetic                                               *)
(***************************************************************************)
Abs(x) == IF x < 0 THEN -x ELSE x

Min(a, b) == IF a <= b THEN a ELSE b

RECURSIVE GCD(_, _)
GCD(a, b) == IF b = 0 THEN a ELSE GCD(b, a % b)

Norm(n, d) == LET g == GCD(Abs(n), d) IN [n |-> n \div g, d |-> d \div g]

RAdd(p, q) == Norm(p.n * q.d + q.n * p.d, p.d * q.d)

RMulInt(p, k) == Norm(p.n * k, p.d)

RLe(p, q) == p.n * q.d <= q.n * p.d

RLt(p, q) == p.n * q.d < q.n * p.d

RZero == [n |-> 0, d |-> 1]

RECURSIVE SumSeq(_)
SumSeq(s) == IF s = <<>> THEN 0 ELSE s[1] + SumSeq(Tail(s))

RECURSIVE RSumSeq(_)
RSumSeq(s) == IF s = <<>> THEN RZero ELSE RAdd(s[1], RSumSeq(Tail(s)))

(***************************************************************************)
(* Game lines: rows of game_batting_logs as get_game_logs selects them.    *)
(* A column is <<v>>, or NULL when the row has no value for it.            *)
(***************************************************************************)
NULL == <<>>

OrZero(c) == IF c = NULL THEN 0 ELSE c[1]

Truthy(c) == c # NULL /\ c[1] # 0

\* a box score without its date
Line(ab, h, d, t, hr, bb, so, pa) ==
    [at_bats |-> <<ab>>, hits |-> <<h>>, doubles |-> <<d>>, triples |-> <<t>>,
     home_runs |-> <<hr>>, walks |-> <<bb>>, strikeouts |-> <<so>>,
     plate_appearances |-> <<pa>>]

Hitless  == Line(4, 0, 0, 0, 0, 0, 2, 4)    \* 0 for 4: OPS 0.000
OneHit   == Line(4, 1, 0, 0, 0, 0, 1, 4)    \* 1 for 4: OPS 0.500
TwoHits  == Line(4, 2, 0, 0, 0, 0, 1, 4)    \* 2 for 4: OPS 1.000
Cycle    == Line(4, 4, 1, 1, 1, 0, 0, 4)    \* single, double, triple, homer: OPS 3.500
Homer    == Line(1, 1, 0, 0, 1, 0, 0, 1)    \* 1 for 1, a home run: OPS 5.000
WalkOnly == Line(0, 0, 0, 0, 0, 1, 0, 1)    \* no at-bat, one walk
\* a row whose at-bats and plate appearances are missing
Missing  == [Line(0, 0, 0, 0, 0, 0, 0, 0) EXCEPT !.at_bats = NULL,
                                                 !.plate_appearances = NULL]
\* a row with at-bats but no plate appearances recorded
NoPA     == [OneHit EXCEPT !.plate_appearances = NULL]

Walks3   == Line(1, 0, 0, 0, 0, 3, 0, 4)    \* 0 for 1 and three walks: OBP .750, OPS 0.750
OneDouble == Line(4, 1, 1, 0, 0, 0, 1, 4)   \* 1 for 4, a double: OBP .250, SLG .500, OPS 0.750

SingleOnly == Line(1, 1, 0, 0, 0, 0, 0, 1)  \* 1 for 1, a single: OPS 2.000
ThreeHits  == Line(4, 3, 0, 0, 0, 0, 1, 4)  \* 3 for 4: OPS 1.500
SingleAndWalks == Line(1, 1, 0, 0, 0, 3, 0, 4)  \* 1 for 1 and three walks: OPS 2.000

GameKinds == {Hitless, OneHit, TwoHits, Cycle, Homer, WalkOnly, Missing, NoPA,
              Walks3, OneDouble, SingleOnly, ThreeHits, SingleAndWalks}

RECURSIVE LcmOf(_)
LcmOf(S) ==
    IF S = {} THEN 1
    ELSE LET k == CHOOSE x \in S : TRUE
             r == LcmOf(S \ {k})
         IN  (k * r) \div GCD(k, r)

\* per-game OPS values are whole multiples of 1 / OPS_UNIT
OPS_UNIT ==
    LcmOf(({OrZero(g.at_bats) : g \in GameKinds}
            \cup {OrZero(g.plate_appearances) : g \in GameKinds}) \ {0})

Rep(kind, n) == [i \in 1..n |-> kind]

\* the games of a season in date order: get_game_logs ... ORDER BY date ASC
Dated(season, kinds) ==
    [i \in 1..Len(kinds) |->
        [date |-> season * 1000 + i,
         at_bats |-> kinds[i].at_bats, hits |-> kinds[i].hits,
         doubles |-> kinds[i].doubles, triples |-> kinds[i].triples,
         home_runs |-> kinds[i].home_runs, walks |-> kinds[i].walks,
         strikeouts |-> kinds[i].strikeouts,
         plate_appearances |-> kinds[i].plate_appearances]]

\* season shapes of the model, by name
Mixed ==
    <<Hitless, OneHit, Cycle, WalkOnly, TwoHits, Missing, Homer, NoPA>>
        \o <<OneHit, Hitless, Hitless, Cycle, TwoHits, OneHit, Hitless, Homer>>

Shape(name) ==
    CASE name = "NoGames"   -> <<>>
      [] name = "ShortYear" -> Rep(OneHit, 2 * MIN_SEGMENT_SIZE - 1)
      [] name = "QuietYear" -> Rep(OneHit, 2 * MIN_SEGMENT_SIZE)
      [] name = "Subtle"    -> Rep(Hitless, MIN_SEGMENT_SIZE) \o Rep(TwoHits, MIN_SEGMENT_SIZE)
      [] name = "Swing"     -> Rep(Hitless, MIN_SEGMENT_SIZE) \o Rep(Homer, MIN_SEGMENT_SIZE)
      [] name = "Benched"   -> Rep(Missing, MIN_SEGMENT_SIZE) \o Rep(Homer, MIN_SEGMENT_SIZE)
      [] name = "Walked"    -> Rep(WalkOnly, MIN_SEGMENT_SIZE) \o Rep(Homer, MIN_SEGMENT_SIZE)
      [] name = "Mixed"     -> Mixed

SeasonShapes ==
    {"NoGames", "ShortYear", "QuietYear", "Subtle", "Swing", "Benched", "Walked", "Mixed"}

\* shapes the player-seasons of the stored game logs take
StoredShapes == {"NoGames", "ShortYear", "Subtle", "Swing"}

(***************************************************************************)
(* compute_game_ops(games): the per-game OPS signal, in 1/OPS_UNIT.        *)
(* raised tells that a division was evaluated with a zero or missing       *)
(* denominator, which ends the call with an exception.                     *)
(***************************************************************************)
total_bases(h, d, t, hr) == (h - d - t - hr) + 2 * d + 3 * t + 4 * hr

\* a slip in the guard: plate appearances are not looked at
game_ops_ab_only(g) ==
    LET ab == g.at_bats
        pa == g.plate_appearances
    IN  IF Truthy(ab) /\ ab[1] > 0
        THEN IF OrZero(ab) = 0 \/ OrZero(pa) = 0
             THEN [raised |-> TRUE, value |-> 0]
             ELSE [raised |-> FALSE,
                   value  |-> ((g.hits[1] + g.walks[1]) * OPS_UNIT) \div pa[1]
                              + (total_bases(g.hits[1], g.doubles[1], g.triples[1],
                                             g.home_runs[1]) * OPS_UNIT) \div ab[1]]
        ELSE [raised |-> FALSE, value |-> 0]

game_ops(g) ==
    LET ab == g.at_bats
        pa == g.plate_appearances
    IN  IF Truthy(ab) /\ ab[1] > 0 /\ Truthy(pa) /\ pa[1] > 0
        THEN IF OrZero(ab) = 0 \/ OrZero(pa) = 0
             THEN [raised |-> TRUE, value |-> 0]
             ELSE [raised |-> FALSE,
                   value  |-> ((g.hits[1] + g.walks[1]) * OPS_UNIT) \div pa[1]
                              + (total_bases(g.hits[1], g.doubles[1], g.triples[1],
                                             g.home_runs[1]) * OPS_UNIT) \div ab[1]]
        ELSE [raised |-> FALSE, value |-> 0]

compute_game_ops(games) ==
    [raised |-> \E i \in 1..Len(games) : game_ops(games[i]).raised,
     values |-> [i \in 1..Len(games) |-> game_ops(games[i]).value]]

\* np.mean(ops_signal), as a rational
mean(values) == Norm(SumSeq(values), Len(values) * OPS_UNIT)

(***************************************************************************)
(* compute_segment_stats(games, start_idx, end_idx): games[start:end]      *)
(* summed, rates from the sums, round(x, 3) as a count of thousandths.     *)
(***************************************************************************)
\* round(n / d, 3) in thousandths; a tie goes to the even neighbour
Round3(n, d) ==
    LET q == (1000 * n) \div d
        r == (1000 * n) % d
    IN  IF 2 * r > d THEN q + 1
        ELSE IF 2 * r = d THEN q + (q % 2)
        ELSE q

Column(segment, name) == SumSeq([i \in 1..Len(segment) |-> OrZero(segment[i][name])])

\* a slip in the slice: the game at end_idx is taken in
compute_segment_stats_off_by_one(games, start_idx, end_idx) ==
    LET segment  == SubSeq(games, start_idx + 1, Min(end_idx + 1, Len(games)))
        total_ab == Column(segment, "at_bats")
        total_h  == Column(segment, "hits")
        total_2b == Column(segment, "doubles")
        total_3b == Column(segment, "triples")
        total_hr == Column(segment, "home_runs")
        total_bb == Column(segment, "walks")
        total_so == Column(segment, "strikeouts")
        total_pa == Column(segment, "plate_appearances")
        tb       == total_bases(total_h, total_2b, total_3b, total_hr)
        obp      == IF total_pa > 0 THEN Norm(total_h + total_bb, total_pa) ELSE RZero
        slg      == IF total_ab > 0 THEN Norm(tb, total_ab) ELSE RZero
        ops      == RAdd(obp, slg)
    IN  [raised      |-> FALSE,
         start_date  |-> segment[1].date,
         end_date    |-> segment[Len(segment)].date,
         num_games   |-> Len(segment),
         batting_avg |-> IF total_ab > 0 THEN Round3(total_h, total_ab) ELSE 0,
         obp         |-> Round3(obp.n, obp.d),
         slg         |-> Round3(slg.n, slg.d),
         ops         |-> Round3(ops.n, ops.d),
         home_runs   |-> total_hr,
         hits        |-> total_h,
         at_bats     |-> total_ab,
         walks       |-> total_bb,
         strikeouts  |-> total_so]

compute_segment_stats(games, start_idx, end_idx) ==
    LET segment  == SubSeq(games, start_idx + 1, Min(end_idx, Len(games)))
        total_ab == Column(segment, "at_bats")
        total_h  == Column(segment, "hits")
        total_2b == Column(segment, "doubles")
        total_3b == Column(segment, "triples")
        total_hr == Column(segment, "home_runs")
        total_bb == Column(segment, "walks")
        total_so == Column(segment, "strikeouts")
        total_pa == Column(segment, "plate_appearances")
        tb       == total_bases(total_h, total_2b, total_3b, total_hr)
        avg_div  == total_ab > 0
        obp_div  == total_pa > 0
        slg_div  == total_ab > 0
        fails    == (avg_div /\ total_ab = 0) \/ (obp_div /\ total_pa = 0)
                        \/ (slg_div /\ total_ab = 0)
        obp      == IF obp_div /\ ~fails THEN Norm(total_h + total_bb, total_pa) ELSE RZero
        slg      == IF slg_div /\ ~fails THEN Norm(tb, total_ab) ELSE RZero
        ops      == RAdd(obp, slg)
    IN  [raised      |-> fails,
         start_date  |-> segment[1].date,
         end_date    |-> segment[Len(segment)].date,
         num_games   |-> Len(segment),
         batting_avg |-> IF avg_div /\ ~fails THEN Round3(total_h, total_ab) ELSE 0,
         obp         |-> Round3(obp.n, obp.d),
         slg         |-> Round3(slg.n, slg.d),
         ops         |-> Round3(ops.n, ops.d),
         home_runs   |-> total_hr,
         hits        |-> total_h,
         at_bats     |-> total_ab,
         walks       |-> total_bb,
         strikeouts  |-> total_so]

(***************************************************************************)
(* label_performance(segment_ops, season_ops), both rationals              *)
(***************************************************************************)
HOT_RATIO == [n |-> 6, d |-> 5]      \* 1.20
COLD_RATIO == [n |-> 4, d |-> 5]     \* 0.80

\* a slip at the boundary: a ratio of exactly 1.20 is not hot
label_performance_strict(segment_ops, season_ops) ==
    IF season_ops.n = 0 THEN "average"
    ELSE LET ratio == Norm(segment_ops.n * season_ops.d, segment_ops.d * season_ops.n)
         IN  IF RLt(HOT_RATIO, ratio) THEN "hot"
             ELSE IF RLe(ratio, COLD_RATIO) THEN "cold"
             ELSE "average"

label_performance(segment_ops, season_ops) ==
    IF season_ops.n = 0 THEN "average"
    ELSE LET ratio == Norm(segment_ops.n * season_ops.d, segment_ops.d * season_ops.n)
         IN  IF RLe(HOT_RATIO, ratio) THEN "hot"
             ELSE IF RLe(ratio, COLD_RATIO) THEN "cold"
             ELSE "average"

Thousandths(k) == [n |-> k, d |-> 1000]

(***************************************************************************)
(* np.convolve(signal, np.ones(W) / W, mode='same'), times W.              *)
(* The result has max(len(signal), W) entries: numpy swaps the operands    *)
(* when the kernel is the longer one and centres on the shorter one.       *)
(***************************************************************************)
convolve_same(signal) ==
    LET N == Len(signal)
        W == ROLLING_WINDOW
        At(i) == IF i \in 1..N THEN signal[i] ELSE 0
    IN  IF N >= W
        THEN LET n_left == W \div 2
             IN  [k \in 1..N |->
                    SumSeq([j \in 1..W |-> At(k - n_left + j - 1)])]
        ELSE LET n_left == N \div 2
                 Tap(k, j) == IF (k - 1) - n_left + j \in 0..(W - 1)
                              THEN signal[N - j] ELSE 0
             IN  [k \in 1..W |->
                    SumSeq([j \in 1..N |-> Tap(k, j - 1)])]

(***************************************************************************)
(* ruptures: CostL2.error(start, end) on the fitted signal x, the sum of   *)
(* squared deviations from the mean of x[start:end] (0-based, half-open).  *)
(***************************************************************************)
cost_error(x, start, end) ==
    LET n   == end - start
        seg == SubSeq(x, start + 1, end)
        sx  == SumSeq(seg)
        sq  == SumSeq([i \in 1..n |-> seg[i] * seg[i]])
    IN  Norm(n * sq - sx * sx, n)

(***************************************************************************)
(* ruptures: Pelt(model="l2", min_size, jump=1).fit(x).predict(pen).       *)
(* partitions[t] is kept as [f |-> sum of its values, bk |-> its ends];    *)
(* every segment of a partition carries one pen, the last one included.    *)
(***************************************************************************)
FirstMin(subs) ==
    CHOOSE i \in 1..Len(subs) :
        /\ \A j \in 1..Len(subs) : RLe(subs[i].f, subs[j].f)
        /\ \A j \in 1..(i - 1) : RLt(subs[i].f, subs[j].f)

RECURSIVE KeepFrom(_, _, _, _)
KeepFrom(adm, subs, limit, i) ==
    IF i > Min(Len(adm), Len(subs)) THEN <<>>
    ELSE (IF RLe(subs[i].f, limit) THEN <<adm[i]>> ELSE <<>>)
            \o KeepFrom(adm, subs, limit, i + 1)

PeltStep(x, min_size, pen, bkp, st) ==
    LET adm1 == Append(st.admissible, bkp - min_size)
        have == SelectSeq(adm1, LAMBDA t : t \in DOMAIN st.partitions)
        subs == [i \in 1..Len(have) |->
                    [f  |-> RAdd(RAdd(st.partitions[have[i]].f,
                                      cost_error(x, have[i], bkp)), pen),
                     bk |-> Append(st.partitions[have[i]].bk, bkp)]]
        best == subs[FirstMin(subs)]
    IN  [partitions |-> [t \in (DOMAIN st.partitions) \cup {bkp} |->
                            IF t = bkp THEN best ELSE st.partitions[t]],
         admissible |-> KeepFrom(adm1, subs, RAdd(best.f, pen), 1)]

RECURSIVE PeltLoop(_, _, _, _, _)
PeltLoop(x, min_size, pen, bkp, st) ==
    IF bkp > Len(x) THEN st.partitions[Len(x)].bk
    ELSE PeltLoop(x, min_size, pen, bkp + 1, PeltStep(x, min_size, pen, bkp, st))

Pelt(x, min_size, pen) ==
    LET first == IF min_size <= Len(x) - 1 THEN min_size ELSE Len(x)
    IN  PeltLoop(x, min_size, pen, first,
                 [partitions |-> [t \in {0} |-> [f |-> RZero, bk |-> <<>>]],
                  admissible |-> <<>>])

(***************************************************************************)
(* detect_change_points(signal, min_size, penalty).  The penalty is        *)
(* brought to the unit of the squared smoothed values.                     *)
(***************************************************************************)
SmoothedUnit == OPS_UNIT * ROLLING_WINDOW

\* a slip in the early return: the signal is compared with min_size, not twice it
detect_change_points_short_guard(signal, min_size, penalty) ==
    IF Len(signal) < min_size
    THEN <<Len(signal)>>
    ELSE Pelt(convolve_same(signal), min_size,
              RMulInt(penalty, SmoothedUnit * SmoothedUnit))

detect_change_points(signal, min_size, penalty) ==
    IF Len(signal) < min_size * 2
    THEN <<Len(signal)>>
    ELSE Pelt(convolve_same(signal), min_size,
              RMulInt(penalty, SmoothedUnit * SmoothedUnit))

\* signals of the end-to-end scenarios are counted in tenths of a point of OPS
SCENE_UNIT == 10

\* detect_change_points(signal, min_size, penalty) on a signal in 1/SCENE_UNIT
detect_change_points_tenths(signal, min_size, penalty) ==
    IF Len(signal) < min_size * 2
    THEN <<Len(signal)>>
    ELSE Pelt(convolve_same(signal), min_size,
              RMulInt(penalty, (SCENE_UNIT * ROLLING_WINDOW) * (SCENE_UNIT * ROLLING_WINDOW)))

(***************************************************************************)
(* Stored data                                                             *)
(***************************************************************************)
\* player ids are FanGraphs ids, kept as text
Players == {"15640", "20123"}

Seasons == {2024, 2025}

\* the player-seasons that may have game logs
PlayerSeasons == {<<"15640", 2024>>, <<"20123", 2025>>}

\* ... ORDER BY season, player_id
BySeasonThenPlayer == <<(<<"15640", 2024>>), (<<"20123", 2025>>)>>

\* ... GROUP BY player_id, season
ByPlayerThenSeason == <<(<<"15640", 2024>>), (<<"20123", 2025>>)>>

\* get_game_logs(conn, player_id, season) on game logs logs
GamesIn(logs, ps) == Dated(ps[2], Shape(logs[ps]))

get_game_logs(ps) == GamesIn(game_logs, ps)

\* get_player_seasons(conn): the player-seasons that have game logs
get_player_seasons ==
    SelectSeq(BySeasonThenPlayer, LAMBDA ps : Len(get_game_logs(ps)) > 0)

\* rows of table rows that belong to player-season ps, in table order
RowsOf(rows, ps) ==
    SelectSeq(rows, LAMBDA r : r.player_id = ps[1] /\ r.season = ps[2])

\* INSERT of new_rows into an AUTOINCREMENT table whose sqlite_sequence is seq
WithIds(new_rows, seq) ==
    [k \in 1..Len(new_rows) |->
        [id |-> seq + k, player_id |-> new_rows[k].player_id, season |-> new_rows[k].season,
         start_date |-> new_rows[k].start_date, end_date |-> new_rows[k].end_date,
         num_games |-> new_rows[k].num_games, batting_avg |-> new_rows[k].batting_avg,
         obp |-> new_rows[k].obp, slg |-> new_rows[k].slg, ops |-> new_rows[k].ops,
         home_runs |-> new_rows[k].home_runs, hits |-> new_rows[k].hits,
         at_bats |-> new_rows[k].at_bats, walks |-> new_rows[k].walks,
         strikeouts |-> new_rows[k].strikeouts, performance |-> new_rows[k].performance,
         season_ops |-> new_rows[k].season_ops]]

\* DELETE FROM streaks
\* a slip: the pass does not clear the table
ClearedKeepingRows(rows) == rows

Cleared(rows) == <<>>

(***************************************************************************)
(* The body of the loops of detect_all_streaks and                         *)
(* detect_sensitive_streaks for one player-season with enough games        *)
(***************************************************************************)
\* end of the k-th segment after the clamp 'if end_idx > len(games)'
SegEnd(games, breakpoints, k) == Min(breakpoints[k], Len(games))

\* a slip: a segment begins one game after the end of the one before
SegBeginSkipping(games, breakpoints, k) ==
    IF k = 1 THEN 0 ELSE SegEnd(games, breakpoints, k - 1) + 1

\* start_idx = end_idx at the end of a turn of the loop over breakpoints
SegBegin(games, breakpoints, k) ==
    IF k = 1 THEN 0 ELSE SegEnd(games, breakpoints, k - 1)

\* the rows built from the aggregates stats of the segments of one
\* player-season; stored_season_ops is the season_ops column, NULL in table
\* streaks, which has none
segment_rows(ps, signal_raised, season_ops, stored_season_ops, stats) ==
    [raised |-> signal_raised \/ \E k \in 1..Len(stats) : stats[k].raised,
     rows   |-> [k \in 1..Len(stats) |->
                    [player_id |-> ps[1], season |-> ps[2],
                     start_date |-> stats[k].start_date,
                     end_date |-> stats[k].end_date,
                     num_games |-> stats[k].num_games,
                     batting_avg |-> stats[k].batting_avg,
                     obp |-> stats[k].obp, slg |-> stats[k].slg, ops |-> stats[k].ops,
                     home_runs |-> stats[k].home_runs, hits |-> stats[k].hits,
                     at_bats |-> stats[k].at_bats, walks |-> stats[k].walks,
                     strikeouts |-> stats[k].strikeouts,
                     performance |-> label_performance(Thousandths(stats[k].ops), season_ops),
                     season_ops |-> stored_season_ops]]]

\* compute_segment_stats for the segments numbered kept of breakpoints
segment_stats(games, breakpoints, kept) ==
    [j \in 1..Len(kept) |->
        compute_segment_stats(games, SegBegin(games, breakpoints, kept[j]),
                              SegEnd(games, breakpoints, kept[j]))]

\* the loop 'for end_idx in breakpoints' of detect_all_streaks
primary_segments(ps, games, signal_raised, season_ops, breakpoints) ==
    segment_rows(ps, signal_raised, season_ops, NULL,
                 segment_stats(games, breakpoints, [k \in 1..Len(breakpoints) |-> k]))

\* the rows one player-season adds to table streaks
primary_rows(ps, games) ==
    LET ops_signal == compute_game_ops(games)
    IN  primary_segments(ps, games, ops_signal.raised, mean(ops_signal.values),
                         detect_change_points(ops_signal.values, MIN_SEGMENT_SIZE, PENALTY))

\* a slip in the filter: long segments are kept as well
sensitive_kept_no_ceiling(games, breakpoints) ==
    SelectSeq([k \in 1..Len(breakpoints) |-> k],
              LAMBDA k : MIN_SEGMENT_SIZE <= SegEnd(games, breakpoints, k)
                                                - SegBegin(games, breakpoints, k))

\* the segments of breakpoints that have MIN_SEGMENT_SIZE to
\* SENSITIVE_MAX_SEGMENT games
sensitive_kept(games, breakpoints) ==
    SelectSeq([k \in 1..Len(breakpoints) |-> k],
              LAMBDA k : /\ MIN_SEGMENT_SIZE <= SegEnd(games, breakpoints, k)
                                                  - SegBegin(games, breakpoints, k)
                         /\ SegEnd(games, breakpoints, k) - SegBegin(games, breakpoints, k)
                                <= SENSITIVE_MAX_SEGMENT)

\* the loop 'for end_idx in breakpoints' of detect_sensitive_streaks
sensitive_segments(ps, games, signal_raised, season_ops, breakpoints) ==
    segment_rows(ps, signal_raised, season_ops, <<Round3(season_ops.n, season_ops.d)>>,
                 segment_stats(games, breakpoints, sensitive_kept(games, breakpoints)))

\* the rows one player-season adds to table streaks_sensitive
sensitive_rows(ps, games) ==
    LET ops_signal == compute_game_ops(games)
    IN  sensitive_segments(ps, games, ops_signal.raised, mean(ops_signal.values),
                           detect_change_points(ops_signal.values, MIN_SEGMENT_SIZE,
                                                SENSITIVE_PENALTY))

\* a slip in the skip: a season counts as long enough from MIN_SEGMENT_SIZE games
primary_turn_short_guard(ps, games) ==
    IF Len(games) < MIN_SEGMENT_SIZE
    THEN [skipped |-> TRUE, raised |-> FALSE, rows |-> <<>>]
    ELSE [skipped |-> FALSE] @@ primary_rows(ps, games)

\* one turn of the loop of detect_all_streaks on the games of ps
primary_turn(ps, games) ==
    IF Len(games) < MIN_SEGMENT_SIZE * 2
    THEN [skipped |-> TRUE, raised |-> FALSE, rows |-> <<>>]
    ELSE [skipped |-> FALSE] @@ primary_rows(ps, games)

\* one turn of the loop of detect_sensitive_streaks on the games of ps
sensitive_turn(ps, games) ==
    IF Len(games) < MIN_SEGMENT_SIZE * 2
    THEN [skipped |-> TRUE, raised |-> FALSE, rows |-> <<>>]
    ELSE [skipped |-> FALSE] @@ sensitive_rows(ps, games)

\* the turns of every player-season for every shape its games may take,
\* worked out once
PrimaryTurns ==
    [ps \in PlayerSeasons |->
        [name \in StoredShapes |-> primary_turn(ps, Dated(ps[2], Shape(name)))]]

SensitiveTurns ==
    [ps \in PlayerSeasons |->
        [name \in StoredShapes |-> sensitive_turn(ps, Dated(ps[2], Shape(name)))]]

(***************************************************************************)
(* The stored state and the batch passes                                   *)
(***************************************************************************)
NoAnswer == <<>>

\* a database whose game logs are loaded and whose streak tables are empty
InitStore ==
    /\ game_logs \in [PlayerSeasons -> StoredShapes]
    /\ streaks = <<>>
    /\ streaks_committed = <<>>
    /\ streaks_seq = 0
    /\ sensitive = <<>>
    /\ sensitive_committed = <<>>
    /\ sensitive_seq = 0
    /\ pc = "idle"
    /\ todo = <<>>
    /\ idx = 0
    /\ passes = 0
    /\ edits = 0
    /\ primary_logs = <<>>
    /\ prev_streaks = <<>>
    /\ sensitive_basis = <<>>
    /\ answer = NoAnswer

Init ==
    /\ InitStore
    /\ arg = <<>>
    /\ ret = NoRet

\* pull_stats.py reloads the game logs of one player-season between passes
ChangeGameLogs ==
    /\ pc = "idle"
    /\ answer = NoAnswer
    /\ edits < MaxEdits
    /\ \E ps \in PlayerSeasons, shape \in StoredShapes :
            /\ shape # game_logs[ps]
            /\ game_logs' = [game_logs EXCEPT ![ps] = shape]
    /\ edits' = edits + 1
    /\ UNCHANGED <<arg, ret, answer, streaks, streaks_committed, streaks_seq,
                   sensitive, sensitive_committed, sensitive_seq,
                   pc, todo, idx, passes, primary_logs, prev_streaks, sensitive_basis>>

\* detect_all_streaks up to its loop: table made, cleared, commit, player-seasons read
StartPrimary ==
    /\ pc = "idle"
    /\ answer = NoAnswer
    /\ passes < MaxPasses
    /\ streaks' = Cleared(streaks)
    /\ streaks_committed' = Cleared(streaks)
    /\ todo' = get_player_seasons
    /\ idx' = 0
    /\ pc' = "primary"
    /\ passes' = passes + 1
    /\ prev_streaks' = IF primary_logs = <<game_logs>> THEN <<streaks_committed>> ELSE <<>>
    /\ primary_logs' = <<game_logs>>
    /\ UNCHANGED <<arg, ret, answer, game_logs, streaks_seq,
                   sensitive, sensitive_committed, sensitive_seq, edits, sensitive_basis>>

\* what a turn of the loop of detect_all_streaks that found found does to
\* table streaks
PrimaryTurnDone(found) ==
    IF found.skipped
    THEN /\ pc' = pc
         /\ UNCHANGED <<streaks, streaks_committed, streaks_seq>>
    ELSE IF found.raised
         THEN \* the exception leaves detect_all_streaks; what was not
              \* committed is gone with the connection
              /\ pc' = "failed"
              /\ streaks' = streaks_committed
              /\ UNCHANGED <<streaks_committed, streaks_seq>>
         ELSE /\ pc' = pc
              /\ streaks' = streaks \o WithIds(found.rows, streaks_seq)
              /\ streaks_seq' = streaks_seq + Len(found.rows)
              /\ streaks_committed' =
                     IF (idx + 1) % COMMIT_EVERY = 0 THEN streaks'
                     ELSE streaks_committed

\* one turn of the loop of detect_all_streaks
StepPrimary ==
    /\ pc = "primary"
    /\ answer = NoAnswer
    /\ todo # <<>>
    /\ PrimaryTurnDone(PrimaryTurns[Head(todo)][game_logs[Head(todo)]])
    /\ todo' = Tail(todo)
    /\ idx' = idx + 1
    /\ UNCHANGED <<arg, ret, answer, game_logs, sensitive, sensitive_committed, sensitive_seq,
                   passes, edits, primary_logs, prev_streaks, sensitive_basis>>

\* the commit that ends detect_all_streaks
FinishPrimary ==
    /\ pc = "primary"
    /\ answer = NoAnswer
    /\ todo = <<>>
    /\ streaks_committed' = streaks
    /\ pc' = "idle"
    /\ UNCHANGED <<arg, ret, answer, game_logs, streaks, streaks_seq,
                   sensitive, sensitive_committed, sensitive_seq,
                   todo, idx, passes, edits, primary_logs, prev_streaks, sensitive_basis>>

\* a read or write of the store fails in a turn of the loop of
\* detect_all_streaks: the exception leaves the function, which has no handler
StorageFailsPrimary ==
    /\ pc = "primary"
    /\ answer = NoAnswer
    /\ todo # <<>>
    /\ pc' = "failed"
    /\ streaks' = streaks_committed
    /\ UNCHANGED <<arg, ret, answer, game_logs, streaks_committed, streaks_seq,
                   sensitive, sensitive_committed, sensitive_seq,
                   todo, idx, passes, edits, primary_logs, prev_streaks, sensitive_basis>>

\* a slip in the HAVING clause: every player-season with records is taken
single_segment_players_any ==
    SelectSeq(ByPlayerThenSeason, LAMBDA ps : Len(RowsOf(streaks, ps)) >= 1)

\* SELECT player_id, season ... FROM streaks GROUP BY ... HAVING seg_count = 1
single_segment_players ==
    SelectSeq(ByPlayerThenSeason, LAMBDA ps : Len(RowsOf(streaks, ps)) = 1)

\* detect_sensitive_streaks up to its loop
StartSensitive ==
    /\ pc = "idle"
    /\ answer = NoAnswer
    /\ passes < MaxPasses
    /\ sensitive' = Cleared(sensitive)
    /\ sensitive_committed' = Cleared(sensitive)
    /\ todo' = single_segment_players
    /\ idx' = 0
    /\ pc' = "sensitive"
    /\ passes' = passes + 1
    /\ sensitive_basis' = <<streaks>>
    /\ UNCHANGED <<arg, ret, answer, game_logs, streaks, streaks_committed, streaks_seq,
                   sensitive_seq, edits, primary_logs, prev_streaks>>

\* what a turn of the loop of detect_sensitive_streaks that found found does
\* to table streaks_sensitive
SensitiveTurnDone(found) ==
    IF found.skipped
    THEN /\ pc' = pc
         /\ UNCHANGED <<sensitive, sensitive_committed, sensitive_seq>>
    ELSE IF found.raised
         THEN /\ pc' = "failed"
              /\ sensitive' = sensitive_committed
              /\ UNCHANGED <<sensitive_committed, sensitive_seq>>
         ELSE /\ pc' = pc
              /\ sensitive' = sensitive \o WithIds(found.rows, sensitive_seq)
              /\ sensitive_seq' = sensitive_seq + Len(found.rows)
              /\ sensitive_committed' =
                     IF (idx + 1) % COMMIT_EVERY = 0 THEN sensitive'
                     ELSE sensitive_committed

\* one turn of the loop of detect_sensitive_streaks
StepSensitive ==
    /\ pc = "sensitive"
    /\ answer = NoAnswer
    /\ todo # <<>>
    /\ SensitiveTurnDone(SensitiveTurns[Head(todo)][game_logs[Head(todo)]])
    /\ todo' = Tail(todo)
    /\ idx' = idx + 1
    /\ UNCHANGED <<arg, ret, answer, game_logs, streaks, streaks_committed, streaks_seq,
                   passes, edits, primary_logs, prev_streaks, sensitive_basis>>

\* the commit that ends detect_sensitive_streaks
FinishSensitive ==
    /\ pc = "sensitive"
    /\ answer = NoAnswer
    /\ todo = <<>>
    /\ sensitive_committed' = sensitive
    /\ pc' = "idle"
    /\ UNCHANGED <<arg, ret, answer, game_logs, streaks, streaks_committed, streaks_seq,
                   sensitive, sensitive_seq,
                   todo, idx, passes, edits, primary_logs, prev_streaks, sensitive_basis>>

\* a read or write of the store fails in a turn of the loop of
\* detect_sensitive_streaks: the exception leaves the function
StorageFailsSensitive ==
    /\ pc = "sensitive"
    /\ answer = NoAnswer
    /\ todo # <<>>
    /\ pc' = "failed"
    /\ sensitive' = sensitive_committed
    /\ UNCHANGED <<arg, ret, answer, game_logs, streaks, streaks_committed, streaks_seq,
                   sensitive_committed, sensitive_seq,
                   todo, idx, passes, edits, primary_logs, prev_streaks, sensitive_basis>>

(***************************************************************************)
(* The query engine: QueryEngine.ask on a question about streaks.  What    *)
(* the language model makes of the question is the request: the route, and *)
(* the SQL by the parts of it the engine looks at.                         *)
(***************************************************************************)
Labels == {"hot", "cold", "average"}

NoName == ""

NoFilter == ""

Routes == {"streak_finder", "simple_lookup"}

\* generate_sql answered OFF_TOPIC, NO_DATA, or SQL that sqlite rejects
Refusals ==
    [route : Routes, reply : {"OFF_TOPIC", "NO_DATA", "BAD_SQL"}, table : {"streaks"},
     like : {NoName}, season : {NULL}, perf : {NoFilter}]

\* SELECT s.* FROM <table> s JOIN players p ... WHERE p.name LIKE '%<like>%'
\* AND s.season = <season> AND s.performance = '<perf>', each condition optional
Selects ==
    [route : Routes, reply : {"SELECT"}, table : {"streaks", "streaks_sensitive"},
     like : Players \cup {NoName}, season : {<<y>> : y \in Seasons} \cup {NULL},
     perf : {NoFilter, "hot"}]

Requests == Refusals \cup Selects

\* cursor.execute(sql); cursor.fetchall() on the committed tables
execute(sql) ==
    SelectSeq(IF sql.table = "streaks" THEN streaks_committed ELSE sensitive_committed,
              LAMBDA r : /\ sql.like = NoName \/ r.player_id = sql.like
                         /\ sql.season = NULL \/ r.season = sql.season[1]
                         /\ sql.perf = NoFilter \/ r.performance = sql.perf)

\* ... ORDER BY s.start_date
RECURSIVE SortedByStartDate(_)
SortedByStartDate(rows) ==
    IF rows = <<>> THEN <<>>
    ELSE LET r    == Head(rows)
             rest == SortedByStartDate(Tail(rows))
         IN  SelectSeq(rest, LAMBDA x : x.start_date < r.start_date)
                 \o <<r>> \o SelectSeq(rest, LAMBDA x : x.start_date >= r.start_date)

\* season = int(season_match.group(1)) if season_match else 2024
DEFAULT_SEASON == 2024

\* a slip: the retry keeps the performance filter of the first query
_get_all_streaks_keeping_filter(sql) ==
    IF sql.like = NoName THEN <<>>
    ELSE LET season == IF sql.season = NULL THEN DEFAULT_SEASON ELSE sql.season[1]
         IN  SortedByStartDate(
                 SelectSeq(streaks_committed,
                           LAMBDA r : /\ r.player_id = sql.like /\ r.season = season
                                      /\ sql.perf = NoFilter \/ r.performance = sql.perf))

\* _get_all_streaks_for_query(conn, original_sql)
_get_all_streaks_for_query(sql) ==
    IF sql.like = NoName THEN <<>>
    ELSE LET season == IF sql.season = NULL THEN DEFAULT_SEASON ELSE sql.season[1]
         IN  SortedByStartDate(
                 SelectSeq(streaks_committed,
                           LAMBDA r : r.player_id = sql.like /\ r.season = season))

FALLBACK_PENALTY == [n |-> 3, d |-> 2]

FALLBACK_MIN_SEGMENT == 7

FALLBACK_MAX_SEGMENT == 30

\* QueryEngine._compute_segment(games, start_idx, end_idx): the rates are
\* rounded first and ops is the sum of the rounded obp and slg
_compute_segment(games, start_idx, end_idx) ==
    LET seg     == SubSeq(games, start_idx + 1, Min(end_idx, Len(games)))
        ab      == Column(seg, "at_bats")
        h       == Column(seg, "hits")
        d       == Column(seg, "doubles")
        t       == Column(seg, "triples")
        hr      == Column(seg, "home_runs")
        bb      == Column(seg, "walks")
        pa      == Column(seg, "plate_appearances")
        avg_div == ab > 0
        obp_div == pa > 0
        slg_div == ab > 0
        fails   == (avg_div /\ ab = 0) \/ (obp_div /\ pa = 0) \/ (slg_div /\ ab = 0)
        avg     == IF avg_div /\ ~fails THEN Round3(h, ab) ELSE 0
        obp     == IF obp_div /\ ~fails THEN Round3(h + bb, pa) ELSE 0
        slg     == IF slg_div /\ ~fails THEN Round3(total_bases(h, d, t, hr), ab) ELSE 0
    IN  [raised |-> fails,
         start_date |-> seg[1].date, end_date |-> seg[Len(seg)].date,
         num_games |-> Len(seg), avg |-> avg, obp |-> obp, slg |-> slg,
         ops |-> obp + slg, hr |-> hr, hits |-> h, ab |-> ab, bb |-> bb]

\* max(segments, key=ops) and min(segments, key=ops): the first of the best
FirstMaxOps(segments) ==
    CHOOSE j \in 1..Len(segments) :
        /\ \A k \in 1..Len(segments) : segments[k].ops <= segments[j].ops
        /\ \A k \in 1..(j - 1) : segments[k].ops < segments[j].ops

FirstMinOps(segments) ==
    CHOOSE j \in 1..Len(segments) :
        /\ \A k \in 1..Len(segments) : segments[k].ops >= segments[j].ops
        /\ \A k \in 1..(j - 1) : segments[k].ops > segments[j].ops

\* the result of _find_best_worst_stretches: text is <<>> for the empty string
NoStretches == [raised |-> FALSE, text |-> <<>>]

\* the lines of the fallback text: the season OPS, the hottest segment and,
\* when it is another one, the coldest
stretches_text(raised, season_ops, segments, hot, cold) ==
    [raised |-> raised \/ \E j \in 1..Len(segments) : segments[j].raised,
     text   |-> <<[season_ops |-> Round3(season_ops.n, season_ops.d),
                   hottest    |-> segments[hot],
                   coldest    |-> IF cold = hot THEN NULL ELSE <<segments[cold]>>]>>]

best_worst(raised, season_ops, segments) ==
    IF segments = <<>> THEN [raised |-> raised, text |-> <<>>]
    ELSE stretches_text(raised, season_ops, segments,
                        FirstMaxOps(segments), FirstMinOps(segments))

\* _compute_segment for the segments numbered kept of breakpoints
fallback_segments(games, breakpoints, kept) ==
    [j \in 1..Len(kept) |->
        _compute_segment(games, SegBegin(games, breakpoints, kept[j]),
                         SegEnd(games, breakpoints, kept[j]))]

\* the segments of breakpoints that have FALLBACK_MIN_SEGMENT to
\* FALLBACK_MAX_SEGMENT games
fallback_kept(games, breakpoints) ==
    SelectSeq([k \in 1..Len(breakpoints) |-> k],
              LAMBDA k : /\ FALLBACK_MIN_SEGMENT <= SegEnd(games, breakpoints, k)
                                                      - SegBegin(games, breakpoints, k)
                         /\ SegEnd(games, breakpoints, k) - SegBegin(games, breakpoints, k)
                                <= FALLBACK_MAX_SEGMENT)

stretches_between(games, raised, season_ops, breakpoints) ==
    best_worst(raised, season_ops,
               fallback_segments(games, breakpoints, fallback_kept(games, breakpoints)))

\* _find_best_worst_stretches from the game logs it read on.  The per-game
\* loop is that of compute_game_ops and FALLBACK_ROLLING_WINDOW is
\* ROLLING_WINDOW.
stretches(games) ==
    IF Len(games) < FALLBACK_MIN_SEGMENT * 2
    THEN NoStretches
    ELSE LET ops_values == compute_game_ops(games)
         IN  stretches_between(games, ops_values.raised, mean(ops_values.values),
                               Pelt(convolve_same(ops_values.values), FALLBACK_MIN_SEGMENT,
                                    RMulInt(FALLBACK_PENALTY, SmoothedUnit * SmoothedUnit)))

\* the stretches of every player-season for every shape its games may take,
\* worked out once
LiveStretches ==
    [ps \in PlayerSeasons |->
        [name \in StoredShapes |-> stretches(Dated(ps[2], Shape(name)))]]

\* the players whose id begins with "20"
StartsWith20 == {"20123"}

\* the integer columns of a streak row, in column order
IntColumns(row) ==
    <<row.id, row.season, row.num_games, row.home_runs, row.hits, row.at_bats,
      row.walks, row.strikeouts>>

\* the game logs _find_best_worst_stretches reads for player_id and season
\* and what it makes of them; no player-season but those of PlayerSeasons
\* has game logs
stretches_for(ps) ==
    IF ps \in PlayerSeasons THEN LiveStretches[ps][game_logs[ps]] ELSE NoStretches

\* _find_best_worst_stretches(conn, streak_row): player_id is the first text
\* column that neither begins with "20" (the dates do) nor is a label,
\* season the first integer column from 2020 to 2030
_find_best_worst_stretches(row) ==
    LET years == SelectSeq(IntColumns(row), LAMBDA v : 2020 <= v /\ v <= 2030)
    IN  IF row.player_id \in StartsWith20 \/ row.player_id \in Labels \/ years = <<>>
        THEN NoStretches
        ELSE stretches_for(<<row.player_id, years[1]>>)

Said(req, kind) == [request |-> req, kind |-> kind, rows |-> <<>>, fallback |-> <<>>]

\* llm.describe_streaks(question, streak_data, history) on the rows and the
\* fallback text put into streak_data
Described(req, rows, found) ==
    IF found.raised THEN Said(req, "raised")
    ELSE [request |-> req, kind |-> "describe_streaks", rows |-> rows,
          fallback |-> found.text]

\* _handle_streak_query from the formatting of the rows on
streak_answer(req, rows, used_fallback) ==
    Described(req, rows,
              IF used_fallback \/ Len(rows) = 1 THEN _find_best_worst_stretches(rows[1])
              ELSE NoStretches)

\* _handle_streak_query from the execution of the SQL on
streak_rows_answer(req, rows, all_rows) ==
    IF rows # <<>> THEN streak_answer(req, rows, FALSE)
    ELSE IF all_rows = <<>> THEN Said(req, "no streak data for that player/season")
    ELSE streak_answer(req, all_rows, TRUE)

\* QueryEngine._handle_streak_query
_handle_streak_query(req) ==
    IF req.reply \in {"OFF_TOPIC", "NO_DATA"} THEN Said(req, "no streak data for that query")
    ELSE IF req.reply = "BAD_SQL" THEN Said(req, "trouble with that streak query")
    ELSE streak_rows_answer(req, execute(req), _get_all_streaks_for_query(req))

\* rows[:50]
ROWS_SHOWN == 50

\* _handle_sql_query from the execution of the SQL on
sql_rows_answer(req, rows, all_rows) ==
    IF rows = <<>> /\ all_rows # <<>>
    THEN Described(req, all_rows,
                   IF Len(all_rows) = 1 THEN _find_best_worst_stretches(all_rows[1])
                   ELSE NoStretches)
    ELSE IF rows # <<>>
         THEN Described(req, SubSeq(rows, 1, Min(ROWS_SHOWN, Len(rows))), NoStretches)
         ELSE Said(req, "generate_answer: No results found.")

\* QueryEngine._handle_sql_query on SQL that names a streaks table
_handle_sql_query(req) ==
    IF req.reply = "OFF_TOPIC" THEN Said(req, "off topic")
    ELSE IF req.reply = "NO_DATA" THEN Said(req, "no data yet")
    ELSE IF req.reply = "BAD_SQL" THEN Said(req, "trouble with that query")
    ELSE sql_rows_answer(req, execute(req), _get_all_streaks_for_query(req))

\* QueryEngine.ask up to the answer
ask(req) ==
    IF req.route = "streak_finder" THEN _handle_streak_query(req)
    ELSE _handle_sql_query(req)

\* a slip: the hottest stretch of a live recomputation is kept as a row of
\* table streaks_sensitive
AskPersisting ==
    /\ answer = NoAnswer
    /\ \E req \in Requests :
          /\ answer' = <<ask(req)>>
          /\ sensitive_committed' =
                 IF ask(req).fallback = <<>> THEN sensitive_committed
                 ELSE Append(sensitive_committed,
                             [ask(req).rows[1] EXCEPT
                                 !.start_date = ask(req).fallback[1].hottest.start_date,
                                 !.end_date = ask(req).fallback[1].hottest.end_date,
                                 !.num_games = ask(req).fallback[1].hottest.num_games])
    /\ UNCHANGED <<arg, ret, game_logs, streaks, streaks_committed, streaks_seq,
                   sensitive, sensitive_seq,
                   pc, todo, idx, passes, edits, primary_logs, prev_streaks, sensitive_basis>>

\* a question is asked and answered
Ask ==
    /\ answer = NoAnswer
    /\ \E req \in Requests : answer' = <<ask(req)>>
    /\ UNCHANGED <<arg, ret, game_logs, streaks, streaks_committed, streaks_seq,
                   sensitive, sensitive_committed, sensitive_seq,
                   pc, todo, idx, passes, edits, primary_logs, prev_streaks, sensitive_basis>>

\* the answer is shown and the next question awaited
Reply ==
    /\ answer # NoAnswer
    /\ answer' = NoAnswer
    /\ UNCHANGED <<arg, ret, game_logs, streaks, streaks_committed, streaks_seq,
                   sensitive, sensitive_committed, sensitive_seq,
                   pc, todo, idx, passes, edits, primary_logs, prev_streaks, sensitive_basis>>

Next ==
    \/ ChangeGameLogs
    \/ StartPrimary
    \/ StepPrimary
    \/ FinishPrimary
    \/ StartSensitive
    \/ StepSensitive
    \/ FinishSensitive
    \/ StorageFailsPrimary
    \/ StorageFailsSensitive
    \/ Ask
    \/ Reply

Spec == Init /\ [][Next]_vars

\* the stored state of the specifications that examine one function
StoreAtRest ==
    /\ InitStore
    /\ game_logs = [ps \in PlayerSeasons |-> "NoGames"]

(***************************************************************************)
(* Specification of detect_change_points as a function of its arguments    *)
(***************************************************************************)
\* a signal has one value per game line of a player-season that has game lines
\* signal values of this specification: OPS 0.000 and 5.000
SegValues == {0, 5 * OPS_UNIT}

SignalsUpTo(len) == UNION {[1..n -> SegValues] : n \in 1..len}

InitSeg ==
    /\ StoreAtRest
    /\ arg \in [signal : SignalsUpTo(MaxSigLen),
                min_size : 1..MaxMinSize,
                penalty : SegPenalties]
    /\ ret = NoRet

CallDetectChangePoints ==
    /\ ret = NoRet
    /\ ret' = <<detect_change_points(arg.signal, arg.min_size, arg.penalty)>>
    /\ UNCHANGED <<arg, dbVars, runVars, answer>>

NextSeg == CallDetectChangePoints

SpecSeg == InitSeg /\ [][NextSeg]_vars

(***************************************************************************)
(* Specification of the signal builder, the aggregator and the classifier  *)
(* as functions of their arguments                                         *)
(***************************************************************************)
GameLists == {Dated(2024, Shape(name)) : name \in SeasonShapes}

\* game lines handed to compute_game_ops by a caller that does not sort them:
\* a season with its latest game first
OutOfOrder ==
    LET games == Dated(2024, Shape("Swing"))
    IN  [i \in 1..Len(games) |-> games[Len(games) + 1 - i]]

InitFn ==
    /\ StoreAtRest
    /\ arg \in [fn : {"compute_game_ops"}, games : GameLists \cup {OutOfOrder}]
          \cup UNION {[fn : {"compute_segment_stats"}, games : {games},
                       start_idx : 0..(Len(games) - 1), end_idx : 1..Len(games)]
                      : games \in GameLists}
          \cup UNION {[fn : {"_compute_segment"}, games : {games},
                       start_idx : 0..(Len(games) - 1), end_idx : 1..Len(games)]
                      : games \in GameLists}
          \cup [fn : {"label_performance"},
                segment_ops : {Thousandths(k) : k \in 0..MaxLabelOps},
                season_ops : {Thousandths(k) : k \in 0..MaxLabelOps}]
    /\ arg.fn \in {"compute_segment_stats", "_compute_segment"}
            => arg.start_idx < arg.end_idx
    /\ ret = NoRet

CallComputeGameOps ==
    /\ ret = NoRet
    /\ arg.fn = "compute_game_ops"
    /\ ret' = <<compute_game_ops(arg.games)>>
    /\ UNCHANGED <<arg, dbVars, runVars, answer>>

CallComputeSegmentStats ==
    /\ ret = NoRet
    /\ arg.fn = "compute_segment_stats"
    /\ ret' = <<compute_segment_stats(arg.games, arg.start_idx, arg.end_idx)>>
    /\ UNCHANGED <<arg, dbVars, runVars, answer>>

CallComputeSegment ==
    /\ ret = NoRet
    /\ arg.fn = "_compute_segment"
    /\ ret' = <<_compute_segment(arg.games, arg.start_idx, arg.end_idx)>>
    /\ UNCHANGED <<arg, dbVars, runVars, answer>>

CallLabelPerformance ==
    /\ ret = NoRet
    /\ arg.fn = "label_performance"
    /\ ret' = <<label_performance(arg.segment_ops, arg.season_ops)>>
    /\ UNCHANGED <<arg, dbVars, runVars, answer>>

NextFn ==
    \/ CallComputeGameOps
    \/ CallComputeSegmentStats
    \/ CallComputeSegment
    \/ CallLabelPerformance

SpecFn == InitFn /\ [][NextFn]_vars

(***************************************************************************)
(* Specification of the two batch passes, run one after the other as the   *)
(* script does, on a store that holds the game lines of one player-season. *)
(* arg is that player-season and its game lines; ret is <<the pass last    *)
(* completed>>.                                                            *)
(***************************************************************************)
\* a season is a run of games of one kind followed by a run of another
RunKinds == {<<Hitless, Homer>>, <<Hitless, OneDouble>>, <<OneHit, OneHit>>,
             <<Walks3, OneDouble>>}

\* lengths of the first run
FirstRuns == {0, MIN_SEGMENT_SIZE}

RunSeasons ==
    {Dated(2024, Rep(kinds[1], a) \o Rep(kinds[2], b)) :
        kinds \in RunKinds, a \in FirstRuns, b \in MIN_SEGMENT_SIZE..MaxRun}

InitTurn ==
    /\ StoreAtRest
    /\ arg \in [ps : {<<"15640", 2024>>}, games : RunSeasons]
    /\ ret = NoRet

\* what detect_all_streaks leaves when its one turn found found
SeasonPrimaryDone(found) ==
    IF found.raised
    THEN /\ ret' = <<"raised">>
         /\ UNCHANGED <<streaks, streaks_committed, streaks_seq>>
    ELSE /\ ret' = <<"detect_all_streaks">>
         /\ streaks' = Cleared(streaks) \o WithIds(found.rows, streaks_seq)
         /\ streaks_committed' = streaks'
         /\ streaks_seq' = streaks_seq + Len(found.rows)

\* detect_all_streaks(conn)
SeasonPrimary ==
    /\ ret = NoRet
    /\ SeasonPrimaryDone(primary_turn(arg.ps, arg.games))
    /\ UNCHANGED <<arg, game_logs, sensitive, sensitive_committed, sensitive_seq,
                   runVars, answer>>

\* what detect_sensitive_streaks leaves when its one turn found found
SeasonSensitiveDone(found) ==
    IF found.raised
    THEN /\ ret' = <<"raised">>
         /\ UNCHANGED <<sensitive, sensitive_committed, sensitive_seq>>
    ELSE /\ ret' = <<"detect_sensitive_streaks">>
         /\ sensitive' = Cleared(sensitive) \o WithIds(found.rows, sensitive_seq)
         /\ sensitive_committed' = sensitive'
         /\ sensitive_seq' = sensitive_seq + Len(found.rows)

\* detect_sensitive_streaks(conn)
SeasonSensitive ==
    /\ ret = <<"detect_all_streaks">>
    /\ IF single_segment_players = <<>>
       THEN /\ ret' = <<"detect_sensitive_streaks">>
            /\ UNCHANGED <<sensitive, sensitive_committed, sensitive_seq>>
       ELSE SeasonSensitiveDone(sensitive_turn(arg.ps, arg.games))
    /\ UNCHANGED <<arg, game_logs, streaks, streaks_committed, streaks_seq,
                   runVars, answer>>

NextTurn ==
    \/ SeasonPrimary
    \/ SeasonSensitive

SpecTurn == InitTurn /\ [][NextTurn]_vars

(***************************************************************************)
(* Specification of detect_change_points on two-level signals counted in   *)
(* tenths, at the penalties of the two passes                              *)
(***************************************************************************)
\* per-game OPS 0.300, 0.700, 1.100 and 1.400
SceneLevels == {3, 7, 11, 14}

SceneSignals ==
    {Rep(lo, a) \o Rep(hi, b) :
        lo \in SceneLevels, hi \in SceneLevels,
        a \in MIN_SEGMENT_SIZE..MaxHalf, b \in MIN_SEGMENT_SIZE..MaxHalf}

InitScene ==
    /\ StoreAtRest
    /\ arg \in [signal : SceneSignals,
                min_size : {MIN_SEGMENT_SIZE},
                penalty : {PENALTY, SENSITIVE_PENALTY}]
    /\ ret = NoRet

CallDetectChangePointsTenths ==
    /\ ret = NoRet
    /\ ret' = <<detect_change_points_tenths(arg.signal, arg.min_size, arg.penalty)>>
    /\ UNCHANGED <<arg, dbVars, runVars, answer>>

NextScene == CallDetectChangePointsTenths

SpecScene == InitScene /\ [][NextScene]_vars

(***************************************************************************)
(* Specification of two batch processes that run detect_all_streaks on the *)
(* same database at once, each on its own connection.  arg holds, for each *)
(* process, its place in the function (pc), the player-seasons it has      *)
(* still to visit (todo), the turns it has made (idx) and the rows it has  *)
(* inserted and not yet committed (pending); streaks_committed is the      *)
(* table.  A connection with uncommitted rows holds SQLite's write lock:   *)
(* a write of the other connection waits for it, and raises                *)
(* sqlite3.OperationalError when the wait outlasts its timeout.            *)
(***************************************************************************)
Runs == {"first", "second"}

OtherRun(r) == CHOOSE q \in Runs : q # r

InitRuns ==
    /\ InitStore
    /\ arg = [r \in Runs |-> [pc |-> "start", todo |-> <<>>, idx |-> 0, pending |-> <<>>]]
    /\ ret = NoRet

\* the other connection holds the write lock
LockedOut(r) == arg[OtherRun(r)].pending # <<>>

\* detect_all_streaks up to its loop: DELETE FROM streaks, commit,
\* get_player_seasons
RunClear(r) ==
    /\ arg[r].pc = "start"
    /\ ~LockedOut(r)
    /\ streaks_committed' = Cleared(streaks_committed)
    /\ arg' = [arg EXCEPT ![r] = [pc |-> "loop", todo |-> get_player_seasons,
                                  idx |-> 0, pending |-> <<>>]]
    /\ UNCHANGED <<ret, game_logs, streaks, streaks_seq,
                   sensitive, sensitive_committed, sensitive_seq, runVars, answer>>

\* what a turn of the loop that found found does; the rows are numbered after
\* the rows of the table and those pending
RunTurnDone(r, found) ==
    IF found.skipped
    THEN /\ arg' = [arg EXCEPT ![r].todo = Tail(@), ![r].idx = @ + 1]
         /\ UNCHANGED <<streaks_committed, streaks_seq>>
    ELSE IF found.raised
         THEN /\ arg' = [arg EXCEPT ![r].pc = "failed", ![r].pending = <<>>]
              /\ UNCHANGED <<streaks_committed, streaks_seq>>
         ELSE IF (arg[r].idx + 1) % COMMIT_EVERY = 0
              THEN /\ streaks_committed' =
                          streaks_committed \o arg[r].pending
                              \o WithIds(found.rows, streaks_seq + Len(arg[r].pending))
                   /\ streaks_seq' = streaks_seq + Len(arg[r].pending) + Len(found.rows)
                   /\ arg' = [arg EXCEPT ![r].todo = Tail(@), ![r].idx = @ + 1,
                                         ![r].pending = <<>>]
              ELSE /\ arg' = [arg EXCEPT
                                 ![r].todo = Tail(@), ![r].idx = @ + 1,
                                 ![r].pending =
                                     @ \o WithIds(found.rows, streaks_seq + Len(@))]
                   /\ UNCHANGED <<streaks_committed, streaks_seq>>

\* one turn of the loop of detect_all_streaks
RunTurn(r) ==
    /\ arg[r].pc = "loop"
    /\ arg[r].todo # <<>>
    /\ ~LockedOut(r)
    /\ RunTurnDone(r, PrimaryTurns[Head(arg[r].todo)][game_logs[Head(arg[r].todo)]])
    /\ UNCHANGED <<ret, game_logs, streaks,
                   sensitive, sensitive_committed, sensitive_seq, runVars, answer>>

\* the commit that ends detect_all_streaks
RunFinish(r) ==
    /\ arg[r].pc = "loop"
    /\ arg[r].todo = <<>>
    /\ streaks_committed' = streaks_committed \o arg[r].pending
    /\ streaks_seq' = streaks_seq + Len(arg[r].pending)
    /\ arg' = [arg EXCEPT ![r].pc = "done", ![r].pending = <<>>]
    /\ UNCHANGED <<ret, game_logs, streaks,
                   sensitive, sensitive_committed, sensitive_seq, runVars, answer>>

\* the DELETE or an INSERT of r waits for the write lock longer than the
\* timeout of its connection: the exception leaves detect_all_streaks
RunLocked(r) ==
    /\ \/ arg[r].pc = "start"
       \/ arg[r].pc = "loop" /\ arg[r].todo # <<>>
    /\ LockedOut(r)
    /\ arg' = [arg EXCEPT ![r].pc = "failed"]
    /\ UNCHANGED <<ret, dbVars, runVars, answer>>

NextRuns ==
    \E r \in Runs :
        \/ RunClear(r)
        \/ RunTurn(r)
        \/ RunFinish(r)
        \/ RunLocked(r)

SpecRuns == InitRuns /\ [][NextRuns]_vars

(***************************************************************************)
(* Specification of the live recomputation of _find_best_worst_stretches   *)
(* as a function of the game lines it reads.  ret is <<[breakpoints, found]>>: *)
(* the breakpoints of its segmentation and the text it returns.            *)
(***************************************************************************)
\* a week of three-hit games that begins with n games of kind odd
Week(odd, n) == Rep(odd, n) \o Rep(ThreeHits, MIN_SEGMENT_SIZE - n)

Weeks == {Week(odd, n) : odd \in {SingleOnly, SingleAndWalks, OneHit, TwoHits}, n \in 0..MaxOdd}

\* two weeks with a hitless week between them
LiveSeasons ==
    {Dated(2024, first \o Rep(Hitless, MIN_SEGMENT_SIZE) \o last) :
        first \in Weeks, last \in Weeks}

\* algo.predict(pen=self.FALLBACK_PENALTY) on the smoothed signal of games
fallback_breakpoints(games) ==
    Pelt(convolve_same(compute_game_ops(games).values), FALLBACK_MIN_SEGMENT,
         RMulInt(FALLBACK_PENALTY, SmoothedUnit * SmoothedUnit))

InitLive ==
    /\ StoreAtRest
    /\ arg \in [games : LiveSeasons]
    /\ ret = NoRet

CallFindBestWorstStretches ==
    /\ ret = NoRet
    /\ ret' = <<[breakpoints |-> fallback_breakpoints(arg.games),
                 found |-> stretches(arg.games)]>>
    /\ UNCHANGED <<arg, dbVars, runVars, answer>>

NextLive == CallFindBestWorstStretches

SpecLive == InitLive /\ [][NextLive]_vars

(***************************************************************************)
(* Specification of a conversation: calls of QueryEngine.ask one after the *)
(* other on one engine, the store at rest.  arg is the engine and the      *)
(* record kept of it: history is self.history, log the pairs of all calls  *)
(* that have returned, calls the calls begun.  ret is <<the call in        *)
(* progress>>: its question, how far it is, and saw, the history each call *)
(* of the language model was handed, in the order of the calls.            *)
(***************************************************************************)
MAX_HISTORY == 5

Questions == {"hot streaks?", "league leaders?"}

\* what the language model may make of a question
ChatRequests ==
    {req \in Refusals : req.route = "streak_finder" /\ req.reply = "OFF_TOPIC"}
        \cup {req \in Selects : /\ req.route = "simple_lookup"
                                /\ req.table = "streaks" /\ req.like = "15640"
                                /\ req.season = NULL /\ req.perf = NoFilter}

\* the kinds of answer that come from a narration call of the language model
Narrated == {"describe_streaks", "generate_answer: No results found."}

\* a slip in the trimming: the oldest exchanges are kept
_add_to_history_keep_oldest(history, question, ans) ==
    LET longer == Append(history, <<question, ans>>)
    IN  IF Len(longer) > MAX_HISTORY
        THEN SubSeq(longer, 1, MAX_HISTORY)
        ELSE longer

\* QueryEngine._add_to_history(question, answer) on self.history
_add_to_history(history, question, ans) ==
    LET longer == Append(history, <<question, ans>>)
    IN  IF Len(longer) > MAX_HISTORY
        THEN SubSeq(longer, Len(longer) - MAX_HISTORY + 1, Len(longer))
        ELSE longer

InitChat ==
    /\ StoreAtRest
    /\ arg = [history |-> <<>>, log |-> <<>>, calls |-> 0]
    /\ ret = NoRet

\* ask(question) up to the choice of the handler: llm.route_query(question,
\* self.history)
ChatRoute ==
    /\ ret = NoRet
    /\ arg.calls < MaxAsks
    /\ \E question \in Questions, route \in Routes :
            ret' = <<[question |-> question, at |-> "routed", route |-> route,
                      saw |-> <<arg.history>>, answer |-> NoAnswer]>>
    /\ arg' = [arg EXCEPT !.calls = @ + 1]
    /\ UNCHANGED <<dbVars, runVars, answer>>

\* the handler: llm.generate_sql(question, self.history), the SQL run, and
\* for the answers that are narrated a call of llm.describe_streaks or
\* llm.generate_answer with self.history
ChatHandle ==
    /\ ret # NoRet
    /\ ret[1].at = "routed"
    /\ \E req \in ChatRequests :
            /\ req.route = ret[1].route
            /\ ret' = <<[ret[1] EXCEPT
                            !.at = "answered",
                            !.answer = <<ask(req).kind>>,
                            !.saw = IF ask(req).kind \in Narrated
                                    THEN @ \o <<arg.history, arg.history>>
                                    ELSE Append(@, arg.history)]>>
    /\ UNCHANGED <<arg, dbVars, runVars, answer>>

\* self._add_to_history(question, answer); return answer
ChatReturn ==
    /\ ret # NoRet
    /\ ret[1].at = "answered"
    /\ arg' = [arg EXCEPT
                  !.history = _add_to_history(@, ret[1].question, ret[1].answer[1]),
                  !.log = Append(@, <<ret[1].question, ret[1].answer[1]>>)]
    /\ ret' = NoRet
    /\ UNCHANGED <<dbVars, runVars, answer>>

NextChat ==
    \/ ChatRoute
    \/ ChatHandle
    \/ ChatReturn

SpecChat == InitChat /\ [][NextChat]_vars

(***************************************************************************)
(* Breakpoint lists, and the objective a segmentation is judged by         *)
(***************************************************************************)
\* start (0-based) of the i-th segment of breakpoint list bk
SegStart(bk, i) == IF i = 1 THEN 0 ELSE bk[i - 1]

IsPartitionOf(bk, len) ==
    /\ Len(bk) >= 1
    /\ \A i \in 1..Len(bk) : bk[i] > 0
    /\ \A i \in 1..(Len(bk) - 1) : bk[i] < bk[i + 1]
    /\ bk[Len(bk)] = len

SegmentsAtLeast(bk, min_size) ==
    \A i \in 1..Len(bk) : bk[i] - SegStart(bk, i) >= min_size

\* sum of the segment costs plus pen for every change point
Objective(x, bk, pen) ==
    RAdd(RSumSeq([i \in 1..Len(bk) |-> cost_error(x, SegStart(bk, i), bk[i])]),
         RMulInt(pen, Len(bk) - 1))

\* the set E of segment ends as an increasing list
Ascending(E) ==
    [i \in 1..Cardinality(E) |->
        CHOOSE e \in E : Cardinality({e2 \in E : e2 <= e}) = i]

\* every breakpoint list over x whose segments have min_size values or more
FeasibleBreakpoints(x, min_size) ==
    {bk \in {Ascending(S \cup {Len(x)}) : S \in SUBSET (1..(Len(x) - 1))} :
        SegmentsAtLeast(bk, min_size)}

Returned == ret # NoRet

\* sum of f over the finite set S of integers
RECURSIVE SumOver(_, _)
SumOver(S, f) ==
    IF S = {} THEN 0
    ELSE LET k == CHOOSE x \in S : TRUE IN f[k] + SumOver(S \ {k}, f)

\* r3 thousandths is n / d to the nearest thousandth, and 0 when d is 0
IsRateOf(r3, n, d) ==
    IF d = 0 THEN r3 = 0
    ELSE 2 * Abs(1000 * n - r3 * d) <= d

ReturnedFrom(fn) == Returned /\ arg.fn = fn

\* C1: a signal shorter than 2 * min_size gets the single breakpoint
\* len(signal), whatever the penalty
C1_ShortSignalSingleBreakpoint ==
    (Returned /\ Len(arg.signal) < 2 * arg.min_size)
        => ret[1] = <<Len(arg.signal)>>

C1_Witness ==
    /\ Returned
    /\ Len(arg.signal) = 5
    /\ arg.min_size = 3
    /\ arg.penalty = PENALTY
    /\ ret[1] = <<5>>

\* C2: for every signal, min_size and penalty the returned breakpoints are
\* positive, strictly increasing and end at len(signal)
C2_BreakpointsPartitionSignal ==
    Returned => IsPartitionOf(ret[1], Len(arg.signal))

\* C3: for a signal of 2 * min_size values or more, every returned segment has
\* min_size values or more and no feasible breakpoint list has a lower
\* objective over the smoothed values
C3_GlobalOptimum ==
    (Returned /\ Len(arg.signal) >= 2 * arg.min_size) =>
        LET x   == convolve_same(arg.signal)
            pen == RMulInt(arg.penalty, SmoothedUnit * SmoothedUnit)
        IN  /\ SegmentsAtLeast(ret[1], arg.min_size)
            /\ \A bk \in FeasibleBreakpoints(x, arg.min_size) :
                    RLe(Objective(x, ret[1], pen), Objective(x, bk, pen))

\* C4: a ratio of 1.20 or more is "hot", 0.80 or less "cold", anything strictly
\* between "average", and a baseline of 0 gives "average"
C4_LabelBoundaries ==
    ReturnedFrom("label_performance") =>
        LET seg  == arg.segment_ops.n
            base == arg.season_ops.n
        IN  /\ base = 0 => ret[1] = "average"
            /\ (base > 0 /\ 100 * seg >= 120 * base) => ret[1] = "hot"
            /\ (base > 0 /\ 100 * seg <= 80 * base) => ret[1] = "cold"
            /\ (base > 0 /\ 100 * seg > 80 * base /\ 100 * seg < 120 * base)
                    => ret[1] = "average"

C4_Witness ==
    /\ ReturnedFrom("label_performance")
    /\ arg.season_ops.n = 10
    /\ arg.segment_ops.n = 12
    /\ ret[1] = "hot"

\* C5: the aggregate of games[start:end] carries the sums of the raw counts
\* of exactly those games and the rates hits/at-bats, (hits+walks)/plate
\* appearances and total bases/at-bats of those sums, to 3 decimals
C5_AggregatesFromRawCounts ==
    ReturnedFrom("compute_segment_stats") =>
        LET range == (arg.start_idx + 1)..arg.end_idx
            Raw(name) == SumOver(range, [i \in range |-> OrZero(arg.games[i][name])])
            tb == Raw("hits") + Raw("doubles") + 2 * Raw("triples") + 3 * Raw("home_runs")
        IN  /\ ret[1].hits = Raw("hits")
            /\ ret[1].at_bats = Raw("at_bats")
            /\ ret[1].home_runs = Raw("home_runs")
            /\ ret[1].walks = Raw("walks")
            /\ ret[1].strikeouts = Raw("strikeouts")
            /\ ret[1].num_games = arg.end_idx - arg.start_idx
            /\ IsRateOf(ret[1].batting_avg, Raw("hits"), Raw("at_bats"))
            /\ IsRateOf(ret[1].obp, Raw("hits") + Raw("walks"), Raw("plate_appearances"))
            /\ IsRateOf(ret[1].slg, tb, Raw("at_bats"))

C5_Witness ==
    /\ ReturnedFrom("compute_segment_stats")
    /\ arg.games = Dated(2024, Shape("Mixed"))
    /\ arg.start_idx = 1
    /\ arg.end_idx = 5
    /\ ret[1].hits = 7
    /\ ret[1].at_bats = 12
    /\ ret[1].batting_avg = 583

\* C6: no rate computation raises on a zero denominator: a game without
\* at-bats or plate appearances has signal value 0, a segment without at-bats
\* has average 0 and slugging 0, a segment without plate appearances has
\* on-base 0, and a baseline of 0 is labelled "average"
C6_NoZeroDivision ==
    /\ ReturnedFrom("compute_game_ops") =>
            /\ ~ret[1].raised
            /\ \A i \in 1..Len(arg.games) :
                    (OrZero(arg.games[i].at_bats) = 0
                        \/ OrZero(arg.games[i].plate_appearances) = 0)
                    => ret[1].values[i] = 0
    /\ ReturnedFrom("compute_segment_stats") =>
            /\ ~ret[1].raised
            /\ ret[1].at_bats = 0 => (ret[1].batting_avg = 0 /\ ret[1].slg = 0)
            /\ Column(SubSeq(arg.games, arg.start_idx + 1, arg.end_idx),
                      "plate_appearances") = 0 => ret[1].obp = 0
    /\ ReturnedFrom("_compute_segment") =>
            /\ ~ret[1].raised
            /\ ret[1].ab = 0 => (ret[1].avg = 0 /\ ret[1].slg = 0)
            /\ Column(SubSeq(arg.games, arg.start_idx + 1, arg.end_idx),
                      "plate_appearances") = 0 => ret[1].obp = 0
    /\ (ReturnedFrom("label_performance") /\ arg.season_ops.n = 0)
            => ret[1] = "average"

\* the signal of a season that has a game without plate appearances, a game
\* without at-bats and a game with neither recorded
C6_Witness ==
    /\ ReturnedFrom("compute_game_ops")
    /\ arg.games = Dated(2024, Shape("Mixed"))
    /\ arg.games[8].plate_appearances = NULL
    /\ OrZero(arg.games[8].at_bats) > 0
    /\ ~ret[1].raised
    /\ ret[1].values[8] = 0
    /\ ret[1].values[4] = 0
    /\ ret[1].values[6] = 0

\* rows without their row id
WithoutIds(rows) ==
    [k \in 1..Len(rows) |-> [c \in DOMAIN rows[k] \ {"id"} |-> rows[k][c]]]

\* a run of the primary pass has completed on the game logs its
\* predecessor ran on
RanTwiceInARow == pc \in {"idle", "sensitive"} /\ prev_streaks # <<>>

\* C7 as stated: a second run of the primary pass on unchanged game logs
\* leaves the stored primary records as the first run left them, every
\* stored column included
C7_ByteIdentical ==
    RanTwiceInARow => streaks_committed = prev_streaks[1]

\* C7, amended: a second run of the primary pass on unchanged game logs
\* stores the same records in the same order in every column but the row id;
\* the ids are not reused, each record's id is past that of the first run by
\* the number of records
C7_IdenticalButForRowId ==
    RanTwiceInARow =>
        /\ WithoutIds(streaks_committed) = WithoutIds(prev_streaks[1])
        /\ \A k \in 1..Len(streaks_committed) :
                streaks_committed[k].id = prev_streaks[1][k].id + Len(prev_streaks[1])

C7_Witness ==
    /\ RanTwiceInARow
    /\ pc = "idle"
    /\ Len(streaks_committed) = 3
    /\ streaks_committed[1].id = 4
    /\ prev_streaks[1][1].id = 1

\* a run of the primary pass has completed
PrimaryCompleted == pc \in {"idle", "sensitive"} /\ primary_logs # <<>>

\* the records derived from the games of a player-season, for every shape
\* the games may take: none from fewer than 2 * MIN_SEGMENT_SIZE games
DerivedRows ==
    [ps \in PlayerSeasons |->
        [name \in StoredShapes |->
            IF Len(Shape(name)) < 2 * MIN_SEGMENT_SIZE THEN <<>>
            ELSE primary_rows(ps, Dated(ps[2], Shape(name))).rows]]

\* the records the primary pass derives from game logs logs for ps
DerivedFrom(logs, ps) == DerivedRows[ps][logs[ps]]

\* C8: after a completed run of the primary pass the stored primary records
\* are those derived from the game logs of that run and no others; a
\* player-season without game logs or with fewer than 2 * MIN_SEGMENT_SIZE
\* games has none
C8_FullReplace ==
    PrimaryCompleted =>
        /\ \A ps \in PlayerSeasons :
                WithoutIds(RowsOf(streaks_committed, ps))
                    = WithoutIds(DerivedFrom(primary_logs[1], ps))
        /\ \A k \in 1..Len(streaks_committed) :
                <<streaks_committed[k].player_id, streaks_committed[k].season>>
                    \in PlayerSeasons
        /\ \A j, k \in 1..Len(streaks_committed) :
                j # k => streaks_committed[j].id # streaks_committed[k].id

\* a second run after the game logs of a player-season with one record fell
\* below 2 * MIN_SEGMENT_SIZE games: three records were written, then two
C8_Witness ==
    /\ PrimaryCompleted
    /\ pc = "idle"
    /\ passes = 2
    /\ edits = 1
    /\ primary_logs[1][<<"15640", 2024>>] = "ShortYear"
    /\ primary_logs[1][<<"20123", 2025>>] = "Swing"
    /\ RowsOf(streaks_committed, <<"15640", 2024>>) = <<>>
    /\ Len(streaks_committed) = 2
    /\ streaks_seq = 5

Answered == answer # NoAnswer

\* the question asks for the streaks of player-season ps in table streaks
AsksPrimaryOf(ps) ==
    /\ Answered
    /\ answer[1].request.reply = "SELECT"
    /\ answer[1].request.table = "streaks"
    /\ answer[1].request.like = ps[1]
    /\ answer[1].request.season = <<ps[2]>>

\* C9: when the lookup of the primary records of a player-season is empty
\* with and without the label filter and that player-season has secondary
\* records, these are handed to narration and the answer is not "no data"
C9_SecondaryLookup ==
    \A ps \in PlayerSeasons :
        (/\ AsksPrimaryOf(ps)
         /\ RowsOf(streaks_committed, ps) = <<>>
         /\ RowsOf(sensitive_committed, ps) # <<>>)
        => /\ answer[1].kind = "describe_streaks"
           /\ answer[1].rows = RowsOf(sensitive_committed, ps)

\* C10: when a label-filtered query for the primary records of a
\* player-season returns no rows while that player-season has primary
\* records, all of them are handed to narration in start-date order and the
\* answer is not "no data"
C10_RetryWithoutFilter ==
    \A ps \in PlayerSeasons :
        (/\ AsksPrimaryOf(ps)
         /\ answer[1].request.perf # NoFilter
         /\ execute(answer[1].request) = <<>>
         /\ RowsOf(streaks_committed, ps) # <<>>)
        => /\ answer[1].kind = "describe_streaks"
           /\ answer[1].rows = RowsOf(streaks_committed, ps)
           /\ \A k \in 1..(Len(answer[1].rows) - 1) :
                    answer[1].rows[k].start_date <= answer[1].rows[k + 1].start_date

\* a question for the hot streaks of a player-season whose one primary record
\* is labelled average
C10_Witness ==
    /\ AsksPrimaryOf(<<"15640", 2024>>)
    /\ answer[1].request.route = "streak_finder"
    /\ answer[1].request.perf = "hot"
    /\ execute(answer[1].request) = <<>>
    /\ Len(RowsOf(streaks_committed, <<"15640", 2024>>)) = 1
    /\ answer[1].kind = "describe_streaks"
    /\ Len(answer[1].rows) = 1
    /\ answer[1].rows[1].performance = "average"

\* whether the sensitive segmentation (SENSITIVE_PENALTY, MIN_SEGMENT_SIZE) of
\* the games of a player-season has a segment of MIN_SEGMENT_SIZE to
\* SENSITIVE_MAX_SEGMENT games, for every shape the games may take
HasSensitiveSegment ==
    [ps \in PlayerSeasons |->
        [name \in StoredShapes |->
            sensitive_kept(Dated(ps[2], Shape(name)),
                           detect_change_points(
                               compute_game_ops(Dated(ps[2], Shape(name))).values,
                               MIN_SEGMENT_SIZE, SENSITIVE_PENALTY)) # <<>>]]

\* C11: for a player-season with exactly one primary record and no secondary
\* records, a request for its hot streaks is answered from the live
\* recomputation: the data handed to narration holds a hottest segment
\* whenever the sensitive segmentation of its game log has a segment of 7 to
\* 30 games
C11_LiveRecomputeFindsHottest ==
    \A ps \in PlayerSeasons :
        (/\ AsksPrimaryOf(ps)
         /\ answer[1].request.perf = "hot"
         /\ Len(RowsOf(streaks_committed, ps)) = 1
         /\ RowsOf(sensitive_committed, ps) = <<>>
         /\ HasSensitiveSegment[ps][game_logs[ps]])
        => /\ answer[1].kind = "describe_streaks"
           /\ answer[1].fallback # <<>>

\* the answers that tell the user there is no data
NoDataKinds ==
    {"no streak data for that player/season", "generate_answer: No results found."}

\* C12: a request for the streaks of a player-season is answered "no data"
\* only when its game log has fewer than 2 * 7 games; a player-season
\* with 14 games or more is not answered "no data" for want of primary
\* records
C12_NoDataOnlyWithoutGames ==
    \A ps \in PlayerSeasons :
        (AsksPrimaryOf(ps) /\ answer[1].kind \in NoDataKinds)
            => Len(get_game_logs(ps)) < 2 * FALLBACK_MIN_SEGMENT

OutsideWindow(rows, lo, hi) ==
    {k \in 1..Len(rows) :
        \/ rows[k].num_games < lo
        \/ rows[k].num_games > hi
        \/ rows[k].num_games # rows[k].end_date - rows[k].start_date + 1}

SeasonLineOps(games) ==
    Thousandths(compute_segment_stats(games, 0, Len(games)).ops)

\* C15: every record of the primary pass carries the label of its OPS against
\* the OPS of the stored season stat line
C15_LabelAgainstSeasonLine ==
    ret = <<"detect_all_streaks">>
        => \A k \in 1..Len(streaks) :
              streaks[k].performance
                  = label_performance(Thousandths(streaks[k].ops), SeasonLineOps(arg.games))

\* the per-game OPS signal of games has one value throughout
FlatSignal(games) ==
    \A i, j \in 1..Len(games) :
        compute_game_ops(games).values[i] = compute_game_ops(games).values[j]

\* C17: a season of 14 games or more whose per-game OPS never varies gets one
\* primary record, which spans the whole season and is labelled "average"
C17_FlatSeasonOneAverageSegment ==
    (/\ ret = <<"detect_all_streaks">>
     /\ Len(arg.games) >= 2 * MIN_SEGMENT_SIZE
     /\ FlatSignal(arg.games))
        => /\ Len(streaks) = 1
           /\ streaks[1].num_games = Len(arg.games)
           /\ streaks[1].performance = "average"

\* mean per-game OPS of the signal values signal[from + 1 .. to], in tenths
SceneMean(signal, from, to) ==
    Norm(SumSeq(SubSeq(signal, from + 1, to)), (to - from) * SCENE_UNIT)

\* C16: 10 games at 0.700 then 10 at 1.100, min_size 7, penalty 3: two
\* segments, the change point within a smoothing window of game 10, the second
\* labelled "hot" and the first "cold" or "average" against the mean 0.900
C16_StepScenarioTwoSegments ==
    (/\ ret # NoRet
     /\ arg.signal = Rep(7, 10) \o Rep(11, 10)
     /\ arg.penalty = PENALTY)
        => /\ Len(ret[1]) = 2
           /\ ret[1][2] = 20
           /\ ret[1][1] \in (10 - ROLLING_WINDOW)..(10 + ROLLING_WINDOW)
           /\ label_performance(SceneMean(arg.signal, ret[1][1], 20),
                                SceneMean(arg.signal, 0, 20)) = "hot"
           /\ label_performance(SceneMean(arg.signal, 0, ret[1][1]),
                                SceneMean(arg.signal, 0, 20)) \in {"cold", "average"}

\* C18: a storage failure in one turn of a batch pass does not end the pass:
\* no batch pass is left by an exception
C18_FailureNeverStopsRun ==
    pc # "failed"

\* the dates of games never go back
InDateOrder(games) ==
    \A i \in 1..(Len(games) - 1) : games[i].date <= games[i + 1].date

\* C19: compute_game_ops on game lines that are not in date order ends with
\* an exception
C19_UnorderedLinesRejected ==
    (/\ Returned
     /\ arg.fn = "compute_game_ops"
     /\ ~InDateOrder(arg.games))
        => ret[1].raised

\* the two batch processes have both come to an end, one of them at least
\* with its final commit
RunsEnded ==
    /\ DOMAIN arg = Runs
    /\ \A r \in Runs : arg[r].pc \in {"done", "failed"}
    /\ \E r \in Runs : arg[r].pc = "done"

\* C20: when two runs of the primary pass on the same database have ended,
\* the table holds the records of one run: for every player-season the
\* records derived from its game logs, once
C20_TwoRunsLeaveOneRecordSet ==
    RunsEnded =>
        \A ps \in PlayerSeasons :
            WithoutIds(RowsOf(streaks_committed, ps))
                = WithoutIds(DerivedFrom(game_logs, ps))

\* C21: when the query of a streak request on table streaks, label filter
\* included, returns a row, the answer carries no live recomputation
C21_StopsAtFirstTier ==
    (/\ Answered
     /\ answer[1].request.reply = "SELECT"
     /\ answer[1].request.table = "streaks"
     /\ execute(answer[1].request) # <<>>)
        => answer[1].fallback = <<>>

\* OPS of games[from + 1 .. to] from the summed counts, not rounded
ExactOps(games, from, to) ==
    LET seg == SubSeq(games, from + 1, to)
        ab  == Column(seg, "at_bats")
        pa  == Column(seg, "plate_appearances")
        h   == Column(seg, "hits")
        tb  == total_bases(h, Column(seg, "doubles"), Column(seg, "triples"),
                           Column(seg, "home_runs"))
    IN  RAdd(IF pa > 0 THEN Norm(h + Column(seg, "walks"), pa) ELSE RZero,
             IF ab > 0 THEN Norm(tb, ab) ELSE RZero)

\* OPS, not rounded, of the games a reported stretch covers
ExactOpsOf(games, stretch) ==
    ExactOps(games, (stretch.start_date - games[1].date),
             (stretch.end_date - games[1].date) + 1)

\* the segments of bk with FALLBACK_MIN_SEGMENT to FALLBACK_MAX_SEGMENT games
Qualifying(bk) ==
    {k \in 1..Len(bk) : /\ bk[k] - SegStart(bk, k) >= FALLBACK_MIN_SEGMENT
                        /\ bk[k] - SegStart(bk, k) <= FALLBACK_MAX_SEGMENT}

\* C22: the hottest stretch reported has the largest OPS before rounding of
\* all qualifying segments, the coldest the smallest
C22_HottestByExactOps ==
    (ret # NoRet /\ ret[1].found.text # <<>>)
        => LET text    == ret[1].found.text[1]
               coldest == IF text.coldest = NULL THEN text.hottest ELSE text.coldest[1]
           IN  \A k \in Qualifying(ret[1].breakpoints) :
                  /\ RLe(ExactOps(arg.games, SegStart(ret[1].breakpoints, k),
                                  ret[1].breakpoints[k]),
                         ExactOpsOf(arg.games, text.hottest))
                  /\ RLe(ExactOpsOf(arg.games, coldest),
                         ExactOps(arg.games, SegStart(ret[1].breakpoints, k),
                                  ret[1].breakpoints[k]))

\* the last n entries of list, all of them when it has fewer
LastOf(list, n) ==
    SubSeq(list, Len(list) - Min(n, Len(list)) + 1, Len(list))

\* C23: the history is the pairs of the last five calls that have returned,
\* in call order; between calls every call begun has returned; and every
\* call of the language model made for a question was handed that history,
\* which has no pair of the call in progress
C23_HistoryLastFive ==
    /\ DOMAIN arg = {"history", "log", "calls"}
    /\ arg.history = LastOf(arg.log, 5)
    /\ ret = NoRet => Len(arg.log) = arg.calls
    /\ ret # NoRet =>
          /\ Len(arg.log) = arg.calls - 1
          /\ \A k \in 1..Len(ret[1].saw) : ret[1].saw[k] = LastOf(arg.log, 5)

\* six calls have returned: the history begins with the pair of the second
\* and ends with the pair of the sixth
C23_Witness ==
    /\ ret = NoRet
    /\ Len(arg.log) = 6
    /\ Len(arg.history) = 5
    /\ arg.log[1] # arg.log[2]
    /\ arg.history[1] = arg.log[2]
    /\ arg.history[5] = arg.log[6]


(***************************************************************************)
(* Specification of the questions asked while and between the batch passes *)
(* over game logs that stay the same                                       *)
(***************************************************************************)
NextAsk ==
    \/ StartPrimary
    \/ StepPrimary
    \/ FinishPrimary
    \/ StartSensitive
    \/ StepSensitive
    \/ FinishSensitive
    \/ Ask
    \/ Reply

SpecAsk == Init /\ [][NextAsk]_vars

\* C24: answering a question, whichever tier resolves it and whether or not
\* the live recomputation runs, leaves the game logs and both streak
\* tables, committed and not, as they were
C24_AskLeavesStorageUnchanged ==
    [][(answer = NoAnswer /\ answer' # NoAnswer) => UNCHANGED dbVars]_vars

\* a question was answered with the stretches of a live recomputation, and
\* table streaks_sensitive has no row
C24_Witness ==
    /\ Answered
    /\ answer[1].fallback # <<>>
    /\ streaks_committed # <<>>
    /\ sensitive_committed = <<>>


\* C25: what _compute_segment reports for a game list and range is what
\* compute_segment_stats reports for them: the same dates and game count,
\* the same home runs, hits, at bats and walks, and the same average,
\* on-base, slugging and OPS
C25_SameStatLine ==
    (ret # NoRet /\ arg.fn = "_compute_segment")
        => LET live  == ret[1]
               batch == compute_segment_stats(arg.games, arg.start_idx, arg.end_idx)
           IN  /\ live.raised = batch.raised
               /\ live.start_date = batch.start_date
               /\ live.end_date = batch.end_date
               /\ live.num_games = batch.num_games
               /\ live.hr = batch.home_runs
               /\ live.hits = batch.hits
               /\ live.ab = batch.at_bats
               /\ live.bb = batch.walks
               /\ live.avg = batch.batting_avg
               /\ live.obp = batch.obp
               /\ live.slg = batch.slg
               /\ live.ops = batch.ops


\* the game counts of rows added up
RECURSIVE TotalGames(_)
TotalGames(rows) ==
    IF rows = <<>> THEN 0 ELSE Head(rows).num_games + TotalGames(Tail(rows))

\* C26: after a completed primary run the records of a player-season with
\* at least 2 * MIN_SEGMENT_SIZE games cover its games exactly: the game
\* counts add up to the number of game lines, the first record starts at
\* the first game, the last ends at the last game, and every record starts
\* at the game that follows the last game of the record before it
C26_PrimaryCoversSeason ==
    (/\ ret \in {<<"detect_all_streaks">>, <<"detect_sensitive_streaks">>}
     /\ Len(arg.games) >= 2 * MIN_SEGMENT_SIZE)
        => LET rows == RowsOf(streaks_committed, arg.ps)
               n    == Len(rows)
           IN  /\ n >= 1
               /\ TotalGames(rows) = Len(arg.games)
               /\ rows[1].start_date = arg.games[1].date
               /\ rows[n].end_date = arg.games[Len(arg.games)].date
               /\ \A k \in 1..(n - 1) :
                      \E i \in 1..(Len(arg.games) - 1) :
                          /\ arg.games[i].date = rows[k].end_date
                          /\ arg.games[i + 1].date = rows[k + 1].start_date

\* the primary run has stored two records for a season of 21 games: the
\* first 7 games and the 14 after them
C26_Witness ==
    /\ ret = <<"detect_all_streaks">>
    /\ Len(arg.games) = 21
    /\ Len(streaks_committed) = 2
    /\ streaks_committed[1].num_games = 7
    /\ streaks_committed[2].start_date = arg.games[8].date
    /\ streaks_committed[2].num_games = 14


\* C27: between runs of the passes every record of streaks_sensitive is of
\* a player-season that has exactly one record in streaks
C27_SecondaryOnlyWhereOnePrimary ==
    pc = "idle"
        => \A k \in 1..Len(sensitive_committed) :
              Len(RowsOf(streaks_committed,
                         <<sensitive_committed[k].player_id,
                           sensitive_committed[k].season>>)) = 1


(***************************************************************************)
(* Specification of one run of detect_all_streaks over more than           *)
(* COMMIT_EVERY player-seasons, one INSERT at a time                       *)
(***************************************************************************)
\* player-seasons of the run
BatchSize == 101

\* the players, by id; all game logs are of season 2024
BatchPlayers == [p \in 1..BatchSize |-> p]

\* the game logs of player p: the players take the shapes of arg.pattern in
\* turn
BatchShape(p) == arg.pattern[(p % Len(arg.pattern)) + 1]

\* what a turn of the loop finds for a season of each shape; the player
\* enters the rows as column player_id only
BatchTurns ==
    [name \in StoredShapes |->
        primary_turn(<<0, 2024>>, Dated(2024, Shape(name)))]

\* the rows a turn of the loop inserts for player p, in order
batch_rows(p) ==
    [k \in 1..Len(BatchTurns[BatchShape(p)].rows) |->
        [BatchTurns[BatchShape(p)].rows[k] EXCEPT !.player_id = p]]

InitBatch ==
    /\ StoreAtRest
    /\ arg \in [pattern : [1..2 -> StoredShapes]]
    /\ ret = NoRet

\* DELETE FROM streaks; conn.commit(); get_player_seasons(conn)
BatchClear ==
    /\ pc = "idle"
    /\ ret = NoRet
    /\ streaks' = Cleared(streaks)
    /\ streaks_committed' = Cleared(streaks)
    /\ todo' = SelectSeq(BatchPlayers, LAMBDA p : Shape(BatchShape(p)) # <<>>)
    /\ idx' = 0
    /\ pc' = "turn"
    /\ UNCHANGED <<arg, ret, answer, game_logs, streaks_seq,
                   sensitive, sensitive_committed, sensitive_seq,
                   passes, edits, primary_logs, prev_streaks, sensitive_basis>>

\* a turn of the loop up to its first INSERT; 'continue' on a short season
\* passes over the commit at the end of the turn
BatchBeginTurn ==
    /\ pc = "turn"
    /\ todo # <<>>
    /\ IF BatchTurns[BatchShape(Head(todo))].skipped
       THEN /\ todo' = Tail(todo)
            /\ idx' = idx + 1
            /\ UNCHANGED <<pc, ret>>
       ELSE /\ ret' = <<batch_rows(Head(todo))>>
            /\ pc' = "insert"
            /\ UNCHANGED <<todo, idx>>
    /\ UNCHANGED <<arg, answer, game_logs, streaks, streaks_committed, streaks_seq,
                   sensitive, sensitive_committed, sensitive_seq,
                   passes, edits, primary_logs, prev_streaks, sensitive_basis>>

\* a slip: every INSERT is committed
BatchInsertCommitting ==
    /\ pc = "insert"
    /\ ret[1] # <<>>
    /\ streaks' = streaks \o WithIds(<<Head(ret[1])>>, streaks_seq)
    /\ streaks_committed' = streaks'
    /\ streaks_seq' = streaks_seq + 1
    /\ ret' = <<Tail(ret[1])>>
    /\ UNCHANGED <<arg, answer, game_logs,
                   sensitive, sensitive_committed, sensitive_seq,
                   pc, todo, idx, passes, edits, primary_logs, prev_streaks,
                   sensitive_basis>>

\* cursor.execute("INSERT INTO streaks ...") for one segment
BatchInsert ==
    /\ pc = "insert"
    /\ ret[1] # <<>>
    /\ streaks' = streaks \o WithIds(<<Head(ret[1])>>, streaks_seq)
    /\ streaks_seq' = streaks_seq + 1
    /\ ret' = <<Tail(ret[1])>>
    /\ UNCHANGED <<arg, answer, game_logs, streaks_committed,
                   sensitive, sensitive_committed, sensitive_seq,
                   pc, todo, idx, passes, edits, primary_logs, prev_streaks,
                   sensitive_basis>>

\* if (i + 1) % 100 == 0: conn.commit()
BatchEndTurn ==
    /\ pc = "insert"
    /\ ret[1] = <<>>
    /\ streaks_committed' = IF (idx + 1) % COMMIT_EVERY = 0 THEN streaks
                            ELSE streaks_committed
    /\ todo' = Tail(todo)
    /\ idx' = idx + 1
    /\ ret' = NoRet
    /\ pc' = "turn"
    /\ UNCHANGED <<arg, answer, game_logs, streaks, streaks_seq,
                   sensitive, sensitive_committed, sensitive_seq,
                   passes, edits, primary_logs, prev_streaks, sensitive_basis>>

\* the conn.commit() that ends detect_all_streaks
BatchFinish ==
    /\ pc = "turn"
    /\ todo = <<>>
    /\ streaks_committed' = streaks
    /\ pc' = "done"
    /\ UNCHANGED <<arg, ret, answer, game_logs, streaks, streaks_seq,
                   sensitive, sensitive_committed, sensitive_seq,
                   todo, idx, passes, edits, primary_logs, prev_streaks,
                   sensitive_basis>>

NextBatch ==
    \/ BatchClear
    \/ BatchBeginTurn
    \/ BatchInsert
    \/ BatchEndTurn
    \/ BatchFinish

SpecBatch == InitBatch /\ [][NextBatch]_vars

\* C28: in every committed state of table streaks during and after a run
\* of detect_all_streaks, a player-season has no row or all the rows of
\* its segments
C28_CommittedWholePlayerSeasons ==
    \A p \in 1..BatchSize :
        LET rows == RowsOf(streaks_committed, <<p, 2024>>)
        IN  rows = <<>> \/ WithoutIds(rows) = batch_rows(p)

\* the commit after COMMIT_EVERY player-seasons has been made and the
\* player-season after it has one of its two rows inserted, not committed
C28_Witness ==
    /\ pc = "insert"
    /\ idx = COMMIT_EVERY
    /\ streaks_committed # <<>>
    /\ Len(streaks) = Len(streaks_committed) + 1
    /\ Len(ret[1]) = 1


(***************************************************************************)
(* Specification of the connection a handler of the query engine opens:    *)
(* arg is the frame of the handler that is answering                       *)
(***************************************************************************)
NoFrame == <<>>

\* generate_sql answered OFF_TOPIC or NO_DATA: both handlers return before
\* sqlite3.connect
AskRefused ==
    /\ answer = NoAnswer
    /\ arg = NoFrame
    /\ \E req \in Requests :
          /\ req.reply \in {"OFF_TOPIC", "NO_DATA"}
          /\ answer' = <<ask(req)>>
    /\ UNCHANGED <<arg, ret, dbVars, runVars>>

\* conn = sqlite3.connect(self.db_path)
AskConnect ==
    /\ answer = NoAnswer
    /\ arg = NoFrame
    /\ \E req \in Requests :
          /\ req.reply \notin {"OFF_TOPIC", "NO_DATA"}
          /\ arg' = <<[request |-> req, conn |-> "open"]>>
    /\ UNCHANGED <<ret, answer, dbVars, runVars>>

\* a handler from cursor.execute(sql) to its return.  The except branch
\* returns with no conn.close(), and so does an exception of
\* _find_best_worst_stretches; the connection then stays open until the
\* garbage collector finalizes it, if it does.  Every other return comes
\* after conn.close().
AskExecute ==
    /\ answer = NoAnswer
    /\ arg # NoFrame
    /\ arg[1].conn = "open"
    /\ answer' = <<ask(arg[1].request)>>
    /\ IF arg[1].request.reply = "BAD_SQL" \/ ask(arg[1].request).kind = "raised"
       THEN \E left \in {"open", "finalized"} : arg' = <<[arg[1] EXCEPT !.conn = left]>>
       ELSE arg' = <<[arg[1] EXCEPT !.conn = "closed"]>>
    /\ UNCHANGED <<ret, dbVars, runVars>>

\* the answer is shown and the next question awaited
AskReturned ==
    /\ answer # NoAnswer
    /\ answer' = NoAnswer
    /\ arg' = NoFrame
    /\ UNCHANGED <<ret, dbVars, runVars>>

NextConn ==
    \/ StartPrimary
    \/ StepPrimary
    \/ FinishPrimary
    \/ StartSensitive
    \/ StepSensitive
    \/ FinishSensitive
    \/ AskRefused
    \/ AskConnect
    \/ AskExecute
    \/ AskReturned

SpecConn == Init /\ [][NextConn]_vars

\* C29: when a handler has returned its answer, the connection it opened,
\* if it opened one, is not open
C29_ConnectionClosedOnReturn ==
    (Answered /\ arg # NoFrame) => arg[1].conn # "open"

====
